---- MODULE Spec2Model ----
(***************************************************************************)
(* Model of setup.js (create-quality-automation): the run from the git     *)
(* check to the shared files, the package.json merge with the default      *)
(* policy of config/defaults.js, and the style-target scan.                *)
(*                                                                         *)
(* Spec is the run on projects that do not change between invocations,     *)
(* ChangeSpec the run on projects to which TypeScript or style files are   *)
(* added between invocations, ScanSpec findStylelintTargets on a directory *)
(* tree, its root entries taken in any order.  FaultSpec is the run on a   *)
(* file system that may refuse package.json, LintSpec getDefaultScripts    *)
(* called on its own, WalkSpec findStylelintTargets with every listing and *)
(* loop iteration of directoryContainsStylelintFiles as a step of its own. *)
(*                                                                         *)
(* JavaScript strings are TLA+ strings; the String.prototype methods the   *)
(* code uses (includes, toLowerCase, replace with a /g regex, join) are    *)
(* computed character by character.  A JavaScript object with string keys  *)
(* is a function whose DOMAIN is its key set.  A lint-staged value is the  *)
(* record [isArray, string, list]: a bare command string (isArray FALSE,   *)
(* the command in string) or an array of command strings (isArray TRUE,    *)
(* the commands in list).                                                  *)
(***************************************************************************)
EXTENDS Integers, Sequences, FiniteSets, TLC

VARIABLES
    disk,              \* package.json as stored in the project directory
    usesTypeScript,    \* detection.languages.typescript
    python,            \* detection.languages.python
    hasRootCss,        \* a style file lies directly in the project root
    styleDirs,         \* top-level directories the scan marks as targets
    packageJson,       \* the in-memory object of the running invocation
    stylelintTargets,  \* result of findStylelintTargets of the running invocation
    existing,          \* package.json as read by the latest invocation
    pc,                \* position of the running invocation in setup.js
    runs,              \* number of completed invocations
    tree,              \* the directory tree findStylelintTargets walks
    pending,           \* root entries the loop of findStylelintTargets has yet to visit
    git,               \* 'git status' succeeds in the project directory
    form,              \* what the content of package.json is, "absent" without the file
    files,             \* the other files of the project directory, name to content
    filesBefore,       \* files as the running invocation found them
    javascript,        \* detection.languages.javascript
    writes,            \* writes of package.json by the running invocation
    warnings,          \* what the running invocation reported with console.warn
    call,              \* a call of getDefaultScripts: its argument and what it returned
    stack,             \* the calls of directoryContainsStylelintFiles under way, outermost first
    listed             \* the directories directoryContainsStylelintFiles has listed

vars == <<disk, usesTypeScript, python, hasRootCss, styleDirs, packageJson,
          stylelintTargets, existing, pc, runs, tree, pending, git, form, files,
          filesBefore, javascript, writes, warnings, call, stack, listed>>

(***************************************************************************)
(* Bounds of the model.                                                    *)
(***************************************************************************)
MaxRuns == 2
MaxPrepareParts == 3
MaxNesting == 5

(***************************************************************************)
(* String primitives.                                                      *)
(***************************************************************************)
\* String.prototype.includes
Includes(s, sub) ==
    \E i \in 1..(Len(s) - Len(sub) + 1) : SubSeq(s, i, i + Len(sub) - 1) = sub

UpperCaseLetters == "ABCDEFGHIJKLMNOPQRSTUVWXYZ"
LowerCaseLetters == "abcdefghijklmnopqrstuvwxyz"

\* The lower-case letter of every upper-case letter
LowerOfUpper ==
    LET position(c) == CHOOSE j \in 1..Len(UpperCaseLetters) :
                           SubSeq(UpperCaseLetters, j, j) = c
    IN [c \in {SubSeq(UpperCaseLetters, j, j) : j \in 1..Len(UpperCaseLetters)} |->
           SubSeq(LowerCaseLetters, position(c), position(c))]

LowerChar(c) == IF c \in DOMAIN LowerOfUpper THEN LowerOfUpper[c] ELSE c

RECURSIVE ToLowerCase(_)
\* String.prototype.toLowerCase
ToLowerCase(s) ==
    IF Len(s) = 0 THEN ""
    ELSE LowerChar(SubSeq(s, 1, 1)) \o ToLowerCase(SubSeq(s, 2, Len(s)))

RECURSIVE Join(_, _)
\* Array.prototype.join
Join(seq, sep) ==
    IF Len(seq) = 0 THEN ""
    ELSE IF Len(seq) = 1 THEN seq[1]
    ELSE seq[1] \o sep \o Join(Tail(seq), sep)

\* Code-unit order of the characters that occur in directory names
CharOrder == "-.ABCDEFGHIJKLMNOPQRSTUVWXYZ_abcdefghijklmnopqrstuvwxyz"

CharCode(c) == CHOOSE i \in 1..Len(CharOrder) : SubSeq(CharOrder, i, i) = c

RECURSIVE StringLess(_, _)
\* a < b for strings, as the default comparator of Array.prototype.sort orders them
StringLess(a, b) ==
    IF Len(b) = 0 THEN FALSE
    ELSE IF Len(a) = 0 THEN TRUE
    ELSE LET ca == CharCode(SubSeq(a, 1, 1))
             cb == CharCode(SubSeq(b, 1, 1))
         IN IF ca # cb THEN ca < cb
            ELSE StringLess(SubSeq(a, 2, Len(a)), SubSeq(b, 2, Len(b)))

RECURSIVE SortStrings(_)
\* Array.from(set).sort()
SortStrings(set) ==
    IF set = {} THEN <<>>
    ELSE LET least == CHOOSE x \in set : \A y \in set \ {x} : StringLess(x, y)
         IN <<least>> \o SortStrings(set \ {least})

\* Elements of a sequence, as a set
Range(seq) == {seq[i] : i \in 1..Len(seq)}

RECURSIVE Unique(_)
\* [...new Set(seq)]: first occurrences, in order
Unique(seq) ==
    IF Len(seq) = 0 THEN <<>>
    ELSE LET front == Unique(SubSeq(seq, 1, Len(seq) - 1))
             last == seq[Len(seq)]
         IN IF last \in Range(front) THEN front ELSE Append(front, last)

(***************************************************************************)
(* config/defaults.js                                                      *)
(***************************************************************************)
JS_LINT_EXTENSIONS == ".js,.jsx,.mjs,.cjs,.html"
TS_LINT_EXTENSIONS == ".js,.jsx,.mjs,.cjs,.ts,.tsx,.html"

STYLELINT_EXTENSIONS == <<"css", "scss", "sass", "less", "pcss">>
DEFAULT_STYLELINT_TARGET == "**/*.{" \o Join(STYLELINT_EXTENSIONS, ",") \o "}"

baseScripts ==
    ("format" :> "prettier --write .") @@ ("format:check" :> "prettier --check .")

normalizeStylelintTargets(targets) ==
    LET kept == SelectSeq(targets, LAMBDA t : t # "")
    IN IF Len(kept) = 0 THEN <<DEFAULT_STYLELINT_TARGET>> ELSE Unique(kept)

\* variant: the brace group also around a single target
stylelintBraceGroup_AlwaysBraces(targets) ==
    "{" \o Join(normalizeStylelintTargets(targets), ",") \o "}"

stylelintBraceGroup(targets) ==
    LET normalized == normalizeStylelintTargets(targets)
    IN IF Len(normalized) = 1 THEN normalized[1]
       ELSE "{" \o Join(normalized, ",") \o "}"

baseLintScripts(extensions, targets) ==
    LET stylelintTarget == stylelintBraceGroup(targets)
    IN ("lint" :> ("eslint . --ext " \o extensions \o " && stylelint \""
                   \o stylelintTarget \o "\" --allow-empty-input"))
       @@ ("lint:fix" :> ("eslint . --ext " \o extensions \o " --fix && stylelint \""
                          \o stylelintTarget \o "\" --fix --allow-empty-input"))

baseDevDependencies ==
    ("husky" :> "^9.1.4") @@ ("lint-staged" :> "^15.2.10")
    @@ ("prettier" :> "^3.3.3") @@ ("eslint" :> "^9.12.0")
    @@ ("globals" :> "^15.9.0") @@ ("stylelint" :> "^16.8.0")
    @@ ("stylelint-config-standard" :> "^37.0.0")

typeScriptDevDependencies ==
    ("@typescript-eslint/eslint-plugin" :> "^8.9.0")
    @@ ("@typescript-eslint/parser" :> "^8.9.0")

JS_LINT_STAGED_PATTERN == "**/*.{js,jsx,mjs,cjs,html}"
TS_LINT_STAGED_PATTERN == "**/*.{js,jsx,ts,tsx,mjs,cjs,html}"

\* Later assignments to the same key win, as in the object literal followed by forEach
baseLintStaged(patterns, targets) ==
    LET normalized == normalizeStylelintTargets(targets)
    IN [t \in Range(normalized) |-> <<"stylelint --fix", "prettier --write">>]
       @@ ("package.json" :> <<"prettier --write">>)
       @@ (patterns :> <<"eslint --fix", "prettier --write">>)
       @@ ("**/*.{json,md,yml,yaml}" :> <<"prettier --write">>)

getDefaultScripts(typescript, targets) ==
    LET extensions == IF typescript THEN TS_LINT_EXTENSIONS ELSE JS_LINT_EXTENSIONS
    IN baseLintScripts(extensions, targets) @@ baseScripts

getDefaultDevDependencies(typescript) ==
    IF typescript THEN typeScriptDevDependencies @@ baseDevDependencies
    ELSE baseDevDependencies

getDefaultLintStaged(typescript, targets) ==
    LET pattern == IF typescript THEN TS_LINT_STAGED_PATTERN ELSE JS_LINT_STAGED_PATTERN
    IN baseLintStaged(pattern, targets)

\* pythonSetup.getScripts()
getPythonScripts ==
    ("python:format" :> "black . && isort .")
    @@ ("python:format:check" :> "black --check . && isort --check-only .")
    @@ ("python:lint" :> "ruff check .")
    @@ ("python:lint:fix" :> "ruff check --fix .")
    @@ ("python:type" :> "mypy .")
    @@ ("python:test" :> "pytest")
    @@ ("python:quality" :> "npm run python:format:check && npm run python:lint")

(***************************************************************************)
(* setup.js: style-target discovery and pattern test                       *)
(***************************************************************************)
STYLELINT_DEFAULT_TARGET == "**/*.{" \o Join(STYLELINT_EXTENSIONS, ",") \o "}"
STYLELINT_EXTENSION_GLOB == "*.{" \o Join(STYLELINT_EXTENSIONS, ",") \o "}"

(***************************************************************************)
(* setup.js: the directory walk.  A tree is the set of its entries, each   *)
(* with its path below the project root and its kind as the Dirent tells   *)
(* it, and the set of directories whose listing fails.  Entries below a    *)
(* symbolic link are what the link leads to.                               *)
(***************************************************************************)
STYLELINT_SCAN_EXCLUDES ==
    {".git", ".github", ".husky", ".next", ".nuxt", ".output", ".turbo",
     ".vercel", ".cache", ".pnpm-store", "coverage", "node_modules"}
MAX_STYLELINT_SCAN_DEPTH == 4

EntryName(entry) == entry.path[Len(entry.path)]

safeReadDir_NeverFails(t, dir) ==
    {entry \in t.entries :
        /\ Len(entry.path) = Len(dir) + 1
        /\ SubSeq(entry.path, 1, Len(dir)) = dir}

\* fs.readdirSync(dir, { withFileTypes: true }), [] when it throws
safeReadDir(t, dir) ==
    IF dir \in t.unreadable THEN {}
    ELSE {entry \in t.entries :
             /\ Len(entry.path) = Len(dir) + 1
             /\ SubSeq(entry.path, 1, Len(dir)) = dir}

\* path.extname: from the last dot to the end, empty when the name has no
\* dot or only a leading one
ExtName(fileName) ==
    LET dots == {i \in 1..Len(fileName) : SubSeq(fileName, i, i) = "."}
        last == IF dots = {} THEN 0 ELSE CHOOSE i \in dots : \A j \in dots : j <= i
    IN IF last <= 1 THEN "" ELSE SubSeq(fileName, last, Len(fileName))

isStylelintFile(fileName) ==
    LET ext == ToLowerCase(SubSeq(ExtName(fileName), 2, Len(ExtName(fileName))))
    IN ext \in Range(STYLELINT_EXTENSIONS)

RECURSIVE directoryContainsStylelintFiles_FollowLinks(_, _, _)
directoryContainsStylelintFiles_FollowLinks(t, dir, depth) ==
    IF depth > MAX_STYLELINT_SCAN_DEPTH THEN FALSE
    ELSE \E entry \in safeReadDir(t, dir) :
            \/ entry.kind \in {"file", "symlink"} /\ isStylelintFile(EntryName(entry))
            \/ /\ entry.kind \in {"directory", "symlink"}
               /\ EntryName(entry) \notin STYLELINT_SCAN_EXCLUDES
               /\ directoryContainsStylelintFiles_FollowLinks(t, entry.path, depth + 1)

RECURSIVE directoryContainsStylelintFiles_NoDepthLimit(_, _, _)
directoryContainsStylelintFiles_NoDepthLimit(t, dir, depth) ==
    \E entry \in safeReadDir(t, dir) :
        /\ entry.kind # "symlink"
        /\ \/ entry.kind = "file" /\ isStylelintFile(EntryName(entry))
           \/ /\ entry.kind = "directory"
              /\ EntryName(entry) \notin STYLELINT_SCAN_EXCLUDES
              /\ directoryContainsStylelintFiles_NoDepthLimit(t, entry.path, depth + 1)

RECURSIVE directoryContainsStylelintFiles_ExcludesAtTopOnly(_, _, _)
directoryContainsStylelintFiles_ExcludesAtTopOnly(t, dir, depth) ==
    IF depth > MAX_STYLELINT_SCAN_DEPTH THEN FALSE
    ELSE \E entry \in safeReadDir(t, dir) :
            /\ entry.kind # "symlink"
            /\ \/ entry.kind = "file" /\ isStylelintFile(EntryName(entry))
               \/ /\ entry.kind = "directory"
                  /\ directoryContainsStylelintFiles_ExcludesAtTopOnly(t, entry.path, depth + 1)

\* The loop returns true at the first entry that is a style file or a
\* directory containing one, so its result is that such an entry exists,
\* in whatever order the listing comes
RECURSIVE directoryContainsStylelintFiles(_, _, _)
directoryContainsStylelintFiles(t, dir, depth) ==
    IF depth > MAX_STYLELINT_SCAN_DEPTH THEN FALSE
    ELSE \E entry \in safeReadDir(t, dir) :
            /\ entry.kind # "symlink"
            /\ \/ entry.kind = "file" /\ isStylelintFile(EntryName(entry))
               \/ /\ entry.kind = "directory"
                  /\ EntryName(entry) \notin STYLELINT_SCAN_EXCLUDES
                  /\ directoryContainsStylelintFiles(t, entry.path, depth + 1)

findStylelintTargets_NoFallback(rootCss, targets) ==
    LET sorted == SortStrings(targets)
    IN (IF rootCss THEN <<STYLELINT_EXTENSION_GLOB>> ELSE <<>>)
       \o [i \in 1..Len(sorted) |-> sorted[i] \o "/**/" \o STYLELINT_EXTENSION_GLOB]

findStylelintTargets_Descending(rootCss, targets) ==
    LET sorted == SortStrings(targets)
        resolvedTargets ==
            (IF rootCss THEN <<STYLELINT_EXTENSION_GLOB>> ELSE <<>>)
            \o [i \in 1..Len(sorted) |->
                   sorted[Len(sorted) + 1 - i] \o "/**/" \o STYLELINT_EXTENSION_GLOB]
    IN IF Len(resolvedTargets) = 0 THEN <<STYLELINT_DEFAULT_TARGET>>
       ELSE resolvedTargets

findStylelintTargets_RootGlobLast(rootCss, targets) ==
    LET sorted == SortStrings(targets)
        resolvedTargets ==
            [i \in 1..Len(sorted) |-> sorted[i] \o "/**/" \o STYLELINT_EXTENSION_GLOB]
            \o (IF rootCss THEN <<STYLELINT_EXTENSION_GLOB>> ELSE <<>>)
    IN IF Len(resolvedTargets) = 0 THEN <<STYLELINT_DEFAULT_TARGET>>
       ELSE resolvedTargets

\* Result construction of findStylelintTargets from what the directory walk found
findStylelintTargets(rootCss, targets) ==
    LET sorted == SortStrings(targets)
        resolvedTargets ==
            (IF rootCss THEN <<STYLELINT_EXTENSION_GLOB>> ELSE <<>>)
            \o [i \in 1..Len(sorted) |-> sorted[i] \o "/**/" \o STYLELINT_EXTENSION_GLOB]
    IN IF Len(resolvedTargets) = 0 THEN <<STYLELINT_DEFAULT_TARGET>>
       ELSE resolvedTargets

\* Mutant: the pattern is tested without toLowerCase
patternIncludesStylelintExtension_CaseSensitive(pattern) ==
    \E i \in 1..Len(STYLELINT_EXTENSIONS) :
        Includes(pattern, "." \o STYLELINT_EXTENSIONS[i])

patternIncludesStylelintExtension(pattern) ==
    LET lower == ToLowerCase(pattern)
    IN \E i \in 1..Len(STYLELINT_EXTENSIONS) :
           Includes(lower, "." \o STYLELINT_EXTENSIONS[i])

(***************************************************************************)
(* setup.js: the merge of package.json                                     *)
(***************************************************************************)
\* obj[key] is truthy: the key is present and its string is not empty
Truthy(obj, key) == key \in DOMAIN obj /\ obj[key] # ""

\* obj[key] = value
Put(obj, key, value) ==
    [k \in DOMAIN obj \cup {key} |-> IF k = key THEN value ELSE obj[k]]

\* defaultScripts, with Object.assign(defaultScripts, pythonScripts) on a Python project
DefaultScripts(typescript, py, targets) ==
    IF py THEN getPythonScripts @@ getDefaultScripts(typescript, targets)
    ELSE getDefaultScripts(typescript, targets)

\* The loop over Object.entries(defaultScripts)
AddMissingScripts(scripts, defaultScripts) ==
    [name \in DOMAIN scripts \cup DOMAIN defaultScripts |->
        IF name \in DOMAIN defaultScripts /\ ~Truthy(scripts, name)
        THEN defaultScripts[name]
        ELSE scripts[name]]

HUSKY_INSTALL == "husky install"

\* Mutant: replace without the g flag rewrites the first occurrence only
ReplaceHuskyInstall_First(s) ==
    IF ~Includes(s, HUSKY_INSTALL) THEN s
    ELSE LET i == CHOOSE j \in 1..Len(s) :
                      /\ SubSeq(s, j, j + Len(HUSKY_INSTALL) - 1) = HUSKY_INSTALL
                      /\ \A k \in 1..(j - 1) :
                             SubSeq(s, k, k + Len(HUSKY_INSTALL) - 1) # HUSKY_INSTALL
         IN SubSeq(s, 1, i - 1) \o "husky"
            \o SubSeq(s, i + Len(HUSKY_INSTALL), Len(s))

RECURSIVE ReplaceHuskyInstall(_)
\* prepareScript.replace(/husky install/g, 'husky')
ReplaceHuskyInstall(s) ==
    IF Len(s) < Len(HUSKY_INSTALL) THEN s
    ELSE IF SubSeq(s, 1, Len(HUSKY_INSTALL)) = HUSKY_INSTALL
    THEN "husky" \o ReplaceHuskyInstall(SubSeq(s, Len(HUSKY_INSTALL) + 1, Len(s)))
    ELSE SubSeq(s, 1, 1) \o ReplaceHuskyInstall(SubSeq(s, 2, Len(s)))

\* Mutant: the legacy command is written when prepare is missing
EnsureHuskyPrepare_LegacyDefault(scripts) ==
    IF ~Truthy(scripts, "prepare") THEN Put(scripts, "prepare", HUSKY_INSTALL)
    ELSE IF ~Includes(scripts["prepare"], "husky")
    THEN Put(scripts, "prepare", scripts["prepare"] \o " && husky")
    ELSE scripts

\* Mutant: husky is appended unless the legacy command is present
EnsureHuskyPrepare_AppendUnlessLegacy(scripts) ==
    IF ~Truthy(scripts, "prepare") THEN Put(scripts, "prepare", "husky")
    ELSE IF Includes(scripts["prepare"], HUSKY_INSTALL)
    THEN Put(scripts, "prepare", ReplaceHuskyInstall(scripts["prepare"]))
    ELSE Put(scripts, "prepare", scripts["prepare"] \o " && husky")

\* Ensure husky prepare script
EnsureHuskyPrepare(scripts) ==
    IF ~Truthy(scripts, "prepare") THEN Put(scripts, "prepare", "husky")
    ELSE IF Includes(scripts["prepare"], HUSKY_INSTALL)
    THEN Put(scripts, "prepare", ReplaceHuskyInstall(scripts["prepare"]))
    ELSE IF ~Includes(scripts["prepare"], "husky")
    THEN Put(scripts, "prepare", scripts["prepare"] \o " && husky")
    ELSE scripts

\* Mutant: the defaults are taken only when the project has no devDependencies
AddMissingDevDependencies_OnlyWhenNone(devDependencies, defaultDevDependencies) ==
    IF DOMAIN devDependencies = {} THEN defaultDevDependencies ELSE devDependencies

\* The loop over Object.entries(defaultDevDependencies)
AddMissingDevDependencies(devDependencies, defaultDevDependencies) ==
    [dependency \in DOMAIN devDependencies \cup DOMAIN defaultDevDependencies |->
        IF dependency \in DOMAIN defaultDevDependencies
           /\ ~Truthy(devDependencies, dependency)
        THEN defaultDevDependencies[dependency]
        ELSE devDependencies[dependency]]

\* The two shapes of a lint-staged value
ScalarValue(command) == [isArray |-> FALSE, string |-> command, list |-> <<>>]
ListValue(commands) == [isArray |-> TRUE, string |-> "", list |-> commands]

\* lintStagedConfig[pattern] is truthy: every array is, a string unless empty
TruthyValue(config, pattern) ==
    pattern \in DOMAIN config
    /\ (config[pattern].isArray \/ config[pattern].string # "")

\* Mutant: the value is spread as if it were always an array
CoerceToList_NoScalar(v) == v.list

\* Array.isArray(v) ? [...v] : [v]
CoerceToList(v) == IF v.isArray THEN v.list ELSE <<v.string>>

\* Mutant: every default command is pushed, without the includes test
MergeCommands_PushAll(merged, commands) == merged \o commands

RECURSIVE MergeCommands(_, _)
\* commands.forEach(command => { if (!merged.includes(command)) merged.push(command) })
MergeCommands(merged, commands) ==
    IF Len(commands) = 0 THEN merged
    ELSE MergeCommands(
             IF Head(commands) \in Range(merged) THEN merged
             ELSE Append(merged, Head(commands)),
             Tail(commands))

hasExistingCssPatterns(lintStagedConfig) ==
    \E pattern \in DOMAIN lintStagedConfig : patternIncludesStylelintExtension(pattern)

\* The default patterns the loop returns early on
SkippedPatterns(lintStagedConfig, defaultLintStaged, targets) ==
    {pattern \in DOMAIN defaultLintStaged :
        pattern \in Range(targets) /\ hasExistingCssPatterns(lintStagedConfig)}

\* The loop over Object.entries(defaultLintStaged)
MergeLintStaged(lintStagedConfig, defaultLintStaged, targets) ==
    LET skipped == SkippedPatterns(lintStagedConfig, defaultLintStaged, targets)
        merging == DOMAIN defaultLintStaged \ skipped
    IN [pattern \in DOMAIN lintStagedConfig \cup merging |->
           IF pattern \notin merging THEN lintStagedConfig[pattern]
           ELSE IF ~TruthyValue(lintStagedConfig, pattern)
           THEN ListValue(defaultLintStaged[pattern])
           ELSE ListValue(MergeCommands(CoerceToList(lintStagedConfig[pattern]),
                                        defaultLintStaged[pattern]))]

(***************************************************************************)
(* setup.js and the language modules: package.json validation, the files   *)
(* written next to package.json, and the engines/volta pins.  The files of *)
(* the project directory are a function from the names that exist to their *)
(* content.                                                                *)
(***************************************************************************)
\* typeof JSON.parse(packageJsonContent), by the form of the content
\* The value of packageJson.name: a string, a number, null, or undefined without the key
JsValue(type, text) == [type |-> type, text |-> text]

Undefined == JsValue("undefined", "")

Null == JsValue("null", "")

\* ' ', tab and line feed, of the characters String.prototype.trim removes
WhiteSpace == {" ", "\t", "\n"}

RECURSIVE TrimStart(_)
TrimStart(s) ==
    IF Len(s) > 0 /\ SubSeq(s, 1, 1) \in WhiteSpace THEN TrimStart(SubSeq(s, 2, Len(s))) ELSE s

RECURSIVE TrimEnd(_)
TrimEnd(s) ==
    IF Len(s) > 0 /\ SubSeq(s, Len(s), Len(s)) \in WhiteSpace
    THEN TrimEnd(SubSeq(s, 1, Len(s) - 1))
    ELSE s

\* String.prototype.trim
Trim(s) == TrimEnd(TrimStart(s))

RECURSIVE RemoveUnsafe(_)
\* normalized.replace(/[<>'"&]/g, '')
RemoveUnsafe(s) ==
    IF Len(s) = 0 THEN ""
    ELSE (IF SubSeq(s, 1, 1) \in {"<", ">", "'", "\"", "&"} THEN "" ELSE SubSeq(s, 1, 1))
         \o RemoveUnsafe(SubSeq(s, 2, Len(s)))

\* variant: the input is not trimmed
validateAndSanitizeInput_NoTrim(input) ==
    IF Len(input) = 0 THEN Null ELSE JsValue("string", RemoveUnsafe(input))

\* Called with a string only, so the typeof test never throws
validateAndSanitizeInput(input) ==
    LET normalized == Trim(input)
    IN IF Len(normalized) = 0 THEN Null ELSE JsValue("string", RemoveUnsafe(normalized))

\* A value in a condition or on the left of ||
IsTruthy(value) ==
    \/ value.type = "string" /\ value.text # ""
    \/ value.type = "number" /\ value.text # "0"

\* if (packageJson.name && typeof packageJson.name === 'string') packageJson.name = ...
SanitizeName(pkg) ==
    IF IsTruthy(pkg.name) /\ pkg.name.type = "string"
    THEN LET sanitized == validateAndSanitizeInput(pkg.name.text)
         IN [pkg EXCEPT !.name = IF IsTruthy(sanitized) THEN sanitized
                                 ELSE JsValue("string", "my-project")]
    ELSE pkg

TypeOf(content) ==
    CASE content \in {"object", "array", "null"} -> "object"
      [] content = "number" -> "number"
      [] content = "string" -> "string"
      [] content = "boolean" -> "boolean"

\* The three ways the read of an existing package.json ends in process.exit(1)
RejectsPackageJson(content) ==
    \/ content = "empty"
    \/ content = "unparseable"
    \/ TypeOf(content) # "object" \/ content = "null"

ExistsSync(fs, name) == name \in DOMAIN fs

\* if (!fs.existsSync(path)) fs.writeFileSync(path, content)
WriteIfAbsent(fs, name, content) ==
    IF ExistsSync(fs, name) THEN fs ELSE Put(fs, name, content)

Template(name) == "template " \o name
ESLINT_TEMPLATE == "module.exports = [js.configs.recommended]"
ESLINT_TS_TEMPLATE == "tsPlugin = require('@typescript-eslint/eslint-plugin')"
HUSKY_HOOK == "npx --no -- lint-staged"

PYTHON_MARKERS == {"requirements.txt", "pyproject.toml"}

\* pythonSetup.setupFiles
pythonSetupFiles(fs) ==
    LET a == WriteIfAbsent(fs, "pyproject.toml", Template("pyproject.toml"))
        b == WriteIfAbsent(a, ".pre-commit-config.yaml",
                           Template(".pre-commit-config.yaml"))
        c == WriteIfAbsent(b, "requirements-dev.txt", Template("requirements-dev.txt"))
        d == WriteIfAbsent(c, ".github/workflows/quality-python.yml",
                           Template(".github/workflows/quality-python.yml"))
    IN IF ExistsSync(d, "tests") THEN d
       ELSE Put(Put(d, "tests", "directory"), "tests/__init__.py", "# Test suite")

writeEslintConfig_LegacyName(fs, typescript) ==
    WriteIfAbsent(fs, ".eslintrc.json", Template(".eslintrc.json"))

\* The eslint.config.cjs part of javascriptSetup.setupFiles
writeEslintConfig(fs, typescript) ==
    LET templateEslint == IF typescript THEN ESLINT_TS_TEMPLATE ELSE ESLINT_TEMPLATE
    IN IF ~ExistsSync(fs, "eslint.config.cjs")
       THEN Put(fs, "eslint.config.cjs", templateEslint)
       ELSE IF typescript /\ ~Includes(fs["eslint.config.cjs"], "@typescript-eslint")
            THEN Put(fs, "eslint.config.cjs", templateEslint)
            ELSE fs

\* Setup Husky pre-commit hook, inside try/catch: when .husky exists and is
\* not a directory the write throws and only a warning is printed
writeHuskyHook(fs) ==
    IF ExistsSync(fs, ".husky") /\ fs[".husky"] # "directory" THEN fs
    ELSE WriteIfAbsent(fs, ".husky/pre-commit", HUSKY_HOOK)

\* javascriptSetup.setupFiles
javascriptSetupFiles(fs, typescript) ==
    LET a == WriteIfAbsent(fs, ".prettierrc", Template(".prettierrc"))
        b == writeEslintConfig(a, typescript)
        c == WriteIfAbsent(b, ".stylelintrc.json", Template(".stylelintrc.json"))
        d == WriteIfAbsent(c, ".prettierignore", Template(".prettierignore"))
        e == WriteIfAbsent(d, ".eslintignore", Template(".eslintignore"))
        f == WriteIfAbsent(e, ".github/workflows/quality.yml",
                           Template(".github/workflows/quality.yml"))
    IN writeHuskyHook(f)

\* .nvmrc and .npmrc of setup.js
writeNodeFiles(fs) ==
    WriteIfAbsent(WriteIfAbsent(fs, ".nvmrc", "20"), ".npmrc", "engine-strict = true")

EnsurePins_DefaultsWin(pkg) ==
    [pkg EXCEPT
        !.fields = @ \cup {"engines", "volta"},
        !.engines = ("node" :> ">=20") @@ @,
        !.volta = ("node" :> "20.11.1") @@ ("npm" :> "10.2.4") @@ @]

\* pkg.engines = { node: '>=20', ...(pkg.engines || {}) } and the same for
\* pkg.volta: a key the object has keeps its value
EnsurePins(pkg) ==
    [pkg EXCEPT
        !.fields = @ \cup {"engines", "volta"},
        !.engines = @ @@ ("node" :> ">=20"),
        !.volta = @ @@ ("node" :> "20.11.1") @@ ("npm" :> "10.2.4")]

\* The names on which two states of the project directory differ
Changed(before, after) ==
    {name \in DOMAIN before \cup DOMAIN after :
        \/ name \notin DOMAIN before
        \/ name \notin DOMAIN after
        \/ before[name] # after[name]}

(***************************************************************************)
(* The projects the invocations start from.  A package.json is the record  *)
(* of its scripts, devDependencies and lint-staged objects and of which of *)
(* the three keys it has; the object of an absent key is empty.  The       *)
(* engines and volta objects are kept the same way.                        *)
(***************************************************************************)
NoEntries == [k \in {} |-> ""]

\* No call of getDefaultScripts is under way
NoCall == [typescript |-> FALSE, given |-> FALSE, stylelintTargets |-> <<>>,
           scripts |-> NoEntries]

\* The object read from package.json: name, the sections the run merges, and rest,
\* every other top-level key with its value
Package(scripts, devDependencies, lintStaged) ==
    [fields |-> {"scripts", "devDependencies", "lint-staged"},
     scripts |-> scripts,
     devDependencies |-> devDependencies,
     lintStaged |-> lintStaged,
     engines |-> NoEntries,
     volta |-> NoEntries,
     name |-> Undefined,
     rest |-> NoEntries]

EmptyPackage ==
    [fields |-> {}, scripts |-> NoEntries, devDependencies |-> NoEntries,
     lintStaged |-> NoEntries, engines |-> NoEntries, volta |-> NoEntries,
     name |-> Undefined, rest |-> NoEntries]

\* The fixture of tests/setup.test.js
FixtureScripts == "lint" :> "custom lint"
FixtureDevDependencies == "prettier" :> "^2.0.0"
FixtureLintStaged == "package.json" :> ListValue(<<"custom-command">>)

\* Every object with keys among `keys` and values in `values`
ObjectsOver(keys, values) == UNION {[ks -> values] : ks \in SUBSET keys}

ScriptInputs == ObjectsOver({"lint", "test"}, {"custom lint", ""})
DevDependencyInputs == ObjectsOver({"prettier", "left-pad"}, {"^2.0.0", ""})

PrepareFragments == {"husky install", "husky", " install", "build", " && "}

RECURSIVE PrepareStrings(_)
\* Every concatenation of at most n fragments
PrepareStrings(n) ==
    IF n = 0 THEN {""}
    ELSE LET shorter == PrepareStrings(n - 1)
         IN shorter \cup {s \o f : s \in shorter, f \in PrepareFragments}

PrepareInputs == PrepareStrings(MaxPrepareParts)

DirNames == {"public", "src"}

CommandValues ==
    {ScalarValue("custom-command"), ScalarValue(""), ScalarValue("prettier --write"),
     ListValue(<<>>), ListValue(<<"custom-command">>),
     ListValue(<<"prettier --write", "custom-command", "custom-command">>)}

CssPatternKeys ==
    {"**/*.css", "public/**/*.css", "Styles/*.SCSS", "**/*.{css,scss}"}

StyleTargetKeys ==
    {STYLELINT_DEFAULT_TARGET, "public/**/" \o STYLELINT_EXTENSION_GLOB}

StyleValues == {ScalarValue("stylelint"), ListValue(<<"stylelint --fix">>)}

\* At most one entry: no key, or one key of `keys` with a value of `values`
OptionalEntry(keys, values) ==
    {NoEntries} \cup {k :> v : k \in keys, v \in values}

\* Every value under the default key package.json alone, and three of them
\* together with at most one custom CSS key and at most one style-target key
LintStagedInputs ==
    OptionalEntry({"package.json"}, CommandValues)
    \cup {a @@ b @@ c :
            a \in {"package.json" :> v : v \in
                       {ScalarValue("custom-command"), ListValue(<<"custom-command">>),
                        ListValue(<<"prettier --write", "custom-command",
                                    "custom-command">>)}},
            b \in OptionalEntry(CssPatternKeys, {ListValue(<<"stylelint --fix">>)}),
            c \in OptionalEntry(StyleTargetKeys, StyleValues)}

Project(pkg, ts, py, rootCss, dirs) ==
    [pkg |-> pkg, ts |-> ts, py |-> py, rootCss |-> rootCss, dirs |-> dirs]

Projects ==
    {Project(Package(FixtureScripts @@ ("prepare" :> p), FixtureDevDependencies,
                     FixtureLintStaged), FALSE, FALSE, FALSE, {}) :
        p \in PrepareInputs}
    \cup {Project(Package(s, FixtureDevDependencies, FixtureLintStaged),
                  ts, py, rootCss, dirs) :
        s \in ScriptInputs, ts \in BOOLEAN, py \in BOOLEAN, rootCss \in BOOLEAN,
        dirs \in SUBSET DirNames}
    \cup {Project(Package(FixtureScripts, d, FixtureLintStaged), ts, FALSE, FALSE, {}) :
        d \in DevDependencyInputs, ts \in BOOLEAN}
    \cup {Project(EmptyPackage, ts, py, rootCss, dirs) :
        ts \in BOOLEAN, py \in BOOLEAN, rootCss \in BOOLEAN, dirs \in SUBSET DirNames}
    \cup {Project(Package(FixtureScripts, FixtureDevDependencies, l),
                  ts, FALSE, rootCss, dirs) :
        l \in LintStagedInputs, ts \in BOOLEAN, rootCss \in BOOLEAN,
        dirs \in SUBSET DirNames}

(***************************************************************************)
(* The directory trees the scan starts from.                               *)
(***************************************************************************)
Entry(path, kind) == [path |-> path, kind |-> kind]

EmptyTree == [entries |-> {}, unreadable |-> {}]

\* top/nested/.../nested, k levels below the top-level directory
NestedPath(top, k) == <<top>> \o [i \in 1..k |-> "nested"]

\* A top-level directory whose only style file lies k levels below it
DeepStyleFile(top, k) ==
    {Entry(NestedPath(top, j), "directory") : j \in 0..k}
    \cup {Entry(NestedPath(top, k) \o <<"app.css">>, "file")}

\* What a top-level directory of the given name may be and hold
DirectoryShapes(top) ==
    {{}, {Entry(<<top>>, "directory")}, {Entry(<<top>>, "symlink")}}
    \cup {DeepStyleFile(top, k) : k \in 0..MaxNesting}
    \cup {{Entry(<<top>>, "directory"), Entry(<<top, name>>, kind)} :
             name \in {"index.js", "Theme.SCSS", "link.css"},
             kind \in {"file", "symlink"}}
    \cup {{Entry(<<top>>, "directory"), Entry(<<top, name>>, "directory"),
           Entry(<<top, name, "app.css">>, "file")} :
             name \in STYLELINT_SCAN_EXCLUDES \cup {"Node_Modules"}}
    \cup {{Entry(<<top>>, "symlink"), Entry(<<top, "app.css">>, "file")},
          {Entry(<<top>>, "directory"), Entry(<<top, "loop">>, "symlink"),
           Entry(<<top, "loop", "app.css">>, "file")}}

SimpleShapes(top) ==
    {{}, {Entry(<<top>>, "directory")}, DeepStyleFile(top, 0)}

RootFileSets ==
    {{}, {Entry(<<"app.css">>, "file")}, {Entry(<<"index.js">>, "file")},
     {Entry(<<"Theme.SCSS">>, "file"), Entry(<<"index.js">>, "file")},
     {Entry(<<".css">>, "file")}, {Entry(<<"link.css">>, "symlink")},
     {Entry(<<"sock.css">>, "socket")}}

Trees ==
    {[entries |-> rootFiles \cup src \cup public \cup styles \cup modules,
      unreadable |-> {}] :
        rootFiles \in RootFileSets, src \in DirectoryShapes("src"),
        public \in SimpleShapes("public"), styles \in SimpleShapes("Styles"),
        modules \in {{}} \cup {DeepStyleFile(name, 0) :
                                  name \in {"node_modules", ".git", "Coverage"}}}
    \cup {[entries |-> rootFiles \cup src, unreadable |-> {dir}] :
        rootFiles \in RootFileSets, src \in DirectoryShapes("src"),
        dir \in {<<>>, <<"src">>, <<"src", "nested">>}}

\* The files a project may hold before setup.js first runs
CONFIG_FILES ==
    {".prettierrc", "eslint.config.cjs", ".stylelintrc.json", ".prettierignore",
     ".eslintignore", ".github/workflows/quality.yml", ".husky/pre-commit",
     ".nvmrc", ".npmrc", ".editorconfig"}

PYTHON_FILES ==
    {"pyproject.toml", ".pre-commit-config.yaml", "requirements-dev.txt",
     ".github/workflows/quality-python.yml", "tests"}

UserContent(name) == "custom " \o name

UserFileSets ==
    {NoEntries}
    \cup {[name \in CONFIG_FILES |-> UserContent(name)],
          [name \in CONFIG_FILES |-> UserContent(name)]
              @@ ("eslint.config.cjs.bak" :> "saved")}
    \cup {Put([name \in CONFIG_FILES |-> UserContent(name)], "eslint.config.cjs",
              "custom rules for @typescript-eslint")}
    \cup {name :> UserContent(name) : name \in CONFIG_FILES \cup PYTHON_FILES}
    \cup {".husky" :> UserContent(".husky"), ".eslintrc.json" :> UserContent(".eslintrc.json")}

\* tsconfig.json and requirements.txt make the detection see TypeScript and Python
MarkerFiles(ts, py) ==
    [name \in (IF ts THEN {"tsconfig.json"} ELSE {})
              \cup (IF py THEN {"requirements.txt"} ELSE {}) |-> UserContent(name)]

PackageJsonForms ==
    {"absent", "empty", "unparseable", "null", "number", "string", "boolean",
     "array", "object"}

PinInputs ==
    {[engines |-> e, volta |-> v] :
        e \in ObjectsOver({"node", "npm"}, {"18", ""}),
        v \in ObjectsOver({"node", "yarn"}, {"18.0.0"})}

NameInputs ==
    {Undefined, Null, JsValue("number", "42"), JsValue("string", "")}
    \cup {JsValue("string", text) :
            text \in {"my-app", "<my&app>", "  my-app\n", "<>", " \t ", "< a >", "it's \"x\""}}

\* Other top-level keys; their values hold the characters the name loses
RestInputs ==
    {NoEntries,
     ("version" :> "1.0.0") @@ ("description" :> " <b>Tom & Jerry's</b> ")
        @@ ("main" :> "index.js")}

Start(project, gitOk, packageJsonForm, userFiles) ==
    [project |-> project, git |-> gitOk, form |-> packageJsonForm,
     files |-> userFiles]

FixtureProject(ts, py) ==
    Project(Package(FixtureScripts, FixtureDevDependencies, FixtureLintStaged),
            ts, py, FALSE, {})

Starts ==
    {Start(project, TRUE, "object", NoEntries) : project \in Projects}
    \cup {Start(FixtureProject(ts, py), gitOk, "object", userFiles) :
             ts \in BOOLEAN, py \in BOOLEAN, gitOk \in BOOLEAN,
             userFiles \in UserFileSets}
    \cup {Start(Project(EmptyPackage, ts, py, FALSE, {}), gitOk, content, userFiles) :
             ts \in BOOLEAN, py \in BOOLEAN, gitOk \in BOOLEAN,
             content \in PackageJsonForms \ {"object"},
             userFiles \in {NoEntries, [name \in CONFIG_FILES |-> UserContent(name)]}}
    \cup {Start(Project([Package(FixtureScripts, FixtureDevDependencies,
                                 FixtureLintStaged)
                            EXCEPT !.engines = pins.engines, !.volta = pins.volta,
                                   !.fields = @ \cup {"engines", "volta"}],
                        ts, FALSE, FALSE, {}), TRUE, "object", NoEntries) :
             pins \in PinInputs, ts \in BOOLEAN}
    \cup {Start(Project([Package(FixtureScripts, FixtureDevDependencies,
                                 FixtureLintStaged)
                            EXCEPT !.name = name, !.rest = rest],
                        FALSE, py, FALSE, {}), TRUE, "object", NoEntries) :
             name \in NameInputs, rest \in RestInputs, py \in BOOLEAN}

(***************************************************************************)
(* The invocation of setup.js, step by step.                               *)
(***************************************************************************)
\* The state in which setup.js is first invoked on a project
Begin(start) ==
    /\ disk = start.project.pkg
    /\ form = start.form
    /\ git = start.git
    /\ files = start.files @@ MarkerFiles(start.project.ts, start.project.py)
    /\ filesBefore = start.files @@ MarkerFiles(start.project.ts, start.project.py)
    /\ hasRootCss = start.project.rootCss
    /\ styleDirs = start.project.dirs
    /\ javascript = FALSE
    /\ usesTypeScript = FALSE
    /\ python = FALSE
    /\ packageJson = EmptyPackage
    /\ stylelintTargets = <<>>
    /\ existing = start.project.pkg
    /\ writes = 0
    /\ pc = "start"
    /\ runs = 0
    /\ tree = EmptyTree
    /\ pending = {}
    /\ warnings = {}
    /\ call = NoCall
    /\ stack = <<>>
    /\ listed = {}

Init == \E start \in Starts : Begin(start)

other_vars == <<call, stack, listed>>
project_vars == <<git, form, hasRootCss, styleDirs>>
detection_vars == <<javascript, usesTypeScript, python>>
scan_vars == <<tree, pending>>

CheckGit_Ignored ==
    /\ pc = "start"
    /\ pc' = "detect"
    /\ UNCHANGED <<disk, files, filesBefore, packageJson, stylelintTargets, existing,
                   writes, runs, project_vars, detection_vars, scan_vars, warnings, other_vars>>

\* execSync('git status'), process.exit(1) when it throws
CheckGit ==
    /\ pc = "start"
    /\ pc' = IF git THEN "detect" ELSE "failed"
    /\ UNCHANGED <<disk, files, filesBefore, packageJson, stylelintTargets, existing,
                   writes, runs, project_vars, detection_vars, scan_vars, warnings, other_vars>>

\* const detection = detectProjectLanguages(projectDir)
DetectLanguages ==
    /\ pc = "detect"
    /\ javascript' = (form # "absent")
    /\ usesTypeScript' =
           \/ ExistsSync(files, "tsconfig.json")
           \/ form = "object" /\ Truthy(disk.devDependencies, "typescript")
    /\ python' = (\E marker \in PYTHON_MARKERS : ExistsSync(files, marker))
    /\ pc' = "python"
    /\ UNCHANGED <<disk, files, filesBefore, packageJson, stylelintTargets, existing,
                   writes, runs, project_vars, scan_vars, warnings, other_vars>>

\* Handle Python projects
SetupPython ==
    /\ pc = "python"
    /\ files' = IF python THEN pythonSetupFiles(files) ELSE files
    /\ pc' = "read"
    /\ UNCHANGED <<disk, filesBefore, packageJson, stylelintTargets, existing,
                   writes, runs, project_vars, detection_vars, scan_vars, warnings, other_vars>>

\* Handle JavaScript/TypeScript projects: read and validate package.json
ReadPackageJson ==
    /\ pc = "read"
    /\ IF ~javascript
       THEN pc' = "shared" /\ UNCHANGED <<packageJson, existing>>
       ELSE IF form = "absent"
            THEN /\ packageJson' = [EmptyPackage EXCEPT !.fields = {"scripts"}]
                 /\ pc' = "scan"
                 /\ UNCHANGED existing
            ELSE IF RejectsPackageJson(form)
                 THEN pc' = "failed" /\ UNCHANGED <<packageJson, existing>>
                 ELSE /\ packageJson' = SanitizeName(disk)
                      /\ existing' = disk
                      /\ pc' = "scan"
    /\ UNCHANGED <<disk, files, filesBefore, stylelintTargets, writes, runs,
                   project_vars, detection_vars, scan_vars, warnings, other_vars>>

\* const stylelintTargets = findStylelintTargets(projectDir)
FindStylelintTargets ==
    /\ pc = "scan"
    /\ stylelintTargets' = findStylelintTargets(hasRootCss, styleDirs)
    /\ pc' = "scripts"
    /\ UNCHANGED <<disk, files, filesBefore, packageJson, existing, writes, runs,
                   project_vars, detection_vars, scan_vars, warnings, other_vars>>

\* Add quality automation scripts
AddScripts ==
    /\ pc = "scripts"
    /\ packageJson' =
           [packageJson EXCEPT
               !.fields = @ \cup {"scripts"},
               !.scripts =
                   AddMissingScripts(@, DefaultScripts(usesTypeScript, python,
                                                       stylelintTargets))]
    /\ pc' = "prepare"
    /\ UNCHANGED <<disk, files, filesBefore, stylelintTargets, existing, writes, runs,
                   project_vars, detection_vars, scan_vars, warnings, other_vars>>

\* Ensure husky prepare script
EnsurePrepare ==
    /\ pc = "prepare"
    /\ packageJson' = [packageJson EXCEPT !.scripts = EnsureHuskyPrepare(@)]
    /\ pc' = "devDependencies"
    /\ UNCHANGED <<disk, files, filesBefore, stylelintTargets, existing, writes, runs,
                   project_vars, detection_vars, scan_vars, warnings, other_vars>>

\* Add devDependencies
AddDevDependencies ==
    /\ pc = "devDependencies"
    /\ packageJson' =
           [packageJson EXCEPT
               !.fields = @ \cup {"devDependencies"},
               !.devDependencies =
                   AddMissingDevDependencies(@, getDefaultDevDependencies(usesTypeScript))]
    /\ pc' = "lintStaged"
    /\ UNCHANGED <<disk, files, filesBefore, stylelintTargets, existing, writes, runs,
                   project_vars, detection_vars, scan_vars, warnings, other_vars>>

\* Add lint-staged configuration
AddLintStaged ==
    /\ pc = "lintStaged"
    /\ packageJson' =
           [packageJson EXCEPT
               !.fields = @ \cup {"lint-staged"},
               !.lintStaged =
                   MergeLintStaged(@, getDefaultLintStaged(usesTypeScript, stylelintTargets),
                                   stylelintTargets)]
    /\ pc' = "write"
    /\ UNCHANGED <<disk, files, filesBefore, stylelintTargets, existing, writes, runs,
                   project_vars, detection_vars, scan_vars, warnings, other_vars>>

\* fs.writeFileSync(packageJsonPath, JSON.stringify(packageJson, null, 2));
\* JSON.stringify of an array leaves out the properties the merge set on it
WritePackageJson ==
    /\ pc = "write"
    /\ disk' = IF form = "array" THEN disk ELSE packageJson
    /\ form' = IF form = "absent" THEN "object" ELSE form
    /\ writes' = writes + 1
    /\ pc' = "nodeFiles"
    /\ UNCHANGED <<files, filesBefore, packageJson, stylelintTargets, existing, runs,
                   git, hasRootCss, styleDirs, detection_vars, scan_vars, warnings, other_vars>>

\* Ensure Node toolchain pinning: .nvmrc and .npmrc
WriteNodeFiles ==
    /\ pc = "nodeFiles"
    /\ files' = writeNodeFiles(files)
    /\ pc' = "setupFiles"
    /\ UNCHANGED <<disk, filesBefore, packageJson, stylelintTargets, existing, writes,
                   runs, project_vars, detection_vars, scan_vars, warnings, other_vars>>

\* javascriptSetup.setupFiles(projectDir, { typescript: usesTypeScript })
SetupJavaScriptFiles ==
    /\ pc = "setupFiles"
    /\ files' = javascriptSetupFiles(files, usesTypeScript)
    /\ warnings' =
           IF ExistsSync(files, ".husky") /\ files[".husky"] # "directory"
           THEN warnings \cup {"Could not create Husky pre-commit hook"}
           ELSE warnings
    /\ pc' = "pins"
    /\ UNCHANGED <<disk, filesBefore, packageJson, stylelintTargets, existing, writes,
                   runs, project_vars, detection_vars, scan_vars, other_vars>>

\* Ensure engines/volta pins: package.json is read again, pinned and written
EnsureEnginesAndVolta ==
    /\ pc = "pins"
    /\ disk' = IF form = "array" THEN disk ELSE EnsurePins(disk)
    /\ writes' = writes + 1
    /\ pc' = "shared"
    /\ UNCHANGED <<files, filesBefore, packageJson, stylelintTargets, existing, runs,
                   project_vars, detection_vars, scan_vars, warnings, other_vars>>

\* Setup shared files (language-agnostic): .editorconfig, then completion
WriteEditorConfig ==
    /\ pc = "shared"
    /\ files' = WriteIfAbsent(files, ".editorconfig", Template(".editorconfig"))
    /\ runs' = runs + 1
    /\ pc' = "done"
    /\ UNCHANGED <<disk, filesBefore, packageJson, stylelintTargets, existing, writes,
                   project_vars, detection_vars, scan_vars, warnings, other_vars>>

\* The user runs setup.js again on the same project
Invoke ==
    /\ pc = "done"
    /\ runs < MaxRuns
    /\ filesBefore' = files
    /\ writes' = 0
    /\ warnings' = {}
    /\ pc' = "start"
    /\ UNCHANGED <<disk, files, packageJson, stylelintTargets, existing, runs,
                   project_vars, detection_vars, scan_vars, other_vars>>

Next ==
    \/ CheckGit
    \/ DetectLanguages
    \/ SetupPython
    \/ ReadPackageJson
    \/ FindStylelintTargets
    \/ AddScripts
    \/ EnsurePrepare
    \/ AddDevDependencies
    \/ AddLintStaged
    \/ WritePackageJson
    \/ WriteNodeFiles
    \/ SetupJavaScriptFiles
    \/ EnsureEnginesAndVolta
    \/ WriteEditorConfig
    \/ Invoke

Spec == Init /\ [][Next]_vars

\* ---------------------------------------------------------------------------
\* The run on a file system that may refuse package.json
\* ---------------------------------------------------------------------------

PINS_WARNING == "Could not update engines/volta in package.json"

\* The main write throws: the catch prints the error and exits with status 1
WritePackageJsonFails ==
    /\ pc = "write"
    /\ pc' = "failed"
    /\ UNCHANGED <<disk, files, filesBefore, packageJson, stylelintTargets, existing, writes,
                   runs, project_vars, detection_vars, scan_vars, warnings, other_vars>>

\* variant: the catch of the pins step ends the run like the catch of the main write
EnsureEnginesAndVoltaFails_Fatal ==
    /\ pc = "pins"
    /\ warnings' = warnings \cup {PINS_WARNING}
    /\ pc' = "failed"
    /\ UNCHANGED <<disk, files, filesBefore, packageJson, stylelintTargets, existing, writes,
                   runs, project_vars, detection_vars, scan_vars, other_vars>>

\* The re-read or the re-write of the pins step throws: the catch warns and the run goes on
EnsureEnginesAndVoltaFails ==
    /\ pc = "pins"
    /\ warnings' = warnings \cup {PINS_WARNING}
    /\ pc' = "shared"
    /\ UNCHANGED <<disk, files, filesBefore, packageJson, stylelintTargets, existing, writes,
                   runs, project_vars, detection_vars, scan_vars, other_vars>>

FaultNext ==
    \/ Next
    \/ WritePackageJsonFails
    \/ EnsureEnginesAndVoltaFails

FaultSpec == Init /\ [][FaultNext]_vars

(***************************************************************************)
(* Runs between which the project changes so that the next run computes    *)
(* other defaults: TypeScript is added, or style files appear or vanish.   *)
(***************************************************************************)
ChangeStarts ==
    {Start(Project(Package(scripts, devDependencies, FixtureLintStaged),
                   ts, FALSE, rootCss, dirs), TRUE, "object", NoEntries) :
        scripts \in {NoEntries, FixtureScripts,
                     FixtureScripts @@ ("prepare" :> "husky install install"),
                     FixtureScripts @@ ("prepare" :> "build")},
        devDependencies \in ObjectsOver({"prettier", "typescript"}, {"^2.0.0", ""}),
        ts \in BOOLEAN, rootCss \in BOOLEAN, dirs \in SUBSET {"src"}}

ChangeInit == \E start \in ChangeStarts : Begin(start)

\* The user adds tsconfig.json to a project without TypeScript and runs again
InvokeWithTypeScript ==
    /\ pc = "done"
    /\ runs < MaxRuns
    /\ ~usesTypeScript
    /\ files' = Put(files, "tsconfig.json", UserContent("tsconfig.json"))
    /\ filesBefore' = files'
    /\ writes' = 0
    /\ warnings' = {}
    /\ pc' = "start"
    /\ UNCHANGED <<disk, packageJson, stylelintTargets, existing, runs,
                   project_vars, detection_vars, scan_vars, other_vars>>

\* The user adds or removes style files, so that the scan finds other
\* targets, and runs again
InvokeWithOtherStyleFiles ==
    /\ pc = "done"
    /\ runs < MaxRuns
    /\ \E rootCss \in BOOLEAN, dirs \in SUBSET DirNames :
        /\ findStylelintTargets(rootCss, dirs) # stylelintTargets
        /\ hasRootCss' = rootCss
        /\ styleDirs' = dirs
    /\ filesBefore' = files
    /\ writes' = 0
    /\ warnings' = {}
    /\ pc' = "start"
    /\ UNCHANGED <<disk, files, packageJson, stylelintTargets, existing, runs,
                   git, form, detection_vars, scan_vars, other_vars>>

ChangeNext ==
    \/ CheckGit
    \/ DetectLanguages
    \/ SetupPython
    \/ ReadPackageJson
    \/ FindStylelintTargets
    \/ AddScripts
    \/ EnsurePrepare
    \/ AddDevDependencies
    \/ AddLintStaged
    \/ WritePackageJson
    \/ WriteNodeFiles
    \/ SetupJavaScriptFiles
    \/ EnsureEnginesAndVolta
    \/ WriteEditorConfig
    \/ InvokeWithTypeScript
    \/ InvokeWithOtherStyleFiles

ChangeSpec == ChangeInit /\ [][ChangeNext]_vars

(***************************************************************************)
(* findStylelintTargets on its own, entry by entry.  The listing's order   *)
(* is the platform's, so the loop may take the root entries in any order.  *)
(***************************************************************************)
merge_vars == <<disk, usesTypeScript, python, packageJson, existing, runs, git, form,
                files, filesBefore, javascript, writes, warnings, call, stack, listed>>

ScanInit ==
    /\ tree \in Trees
    /\ pending = {}
    /\ hasRootCss = FALSE
    /\ styleDirs = {}
    /\ stylelintTargets = <<>>
    /\ pc = "list"
    /\ disk = EmptyPackage
    /\ usesTypeScript = FALSE
    /\ python = FALSE
    /\ packageJson = EmptyPackage
    /\ existing = EmptyPackage
    /\ runs = 0
    /\ git = TRUE
    /\ form = "object"
    /\ files = NoEntries
    /\ filesBefore = NoEntries
    /\ javascript = TRUE
    /\ writes = 0
    /\ warnings = {}
    /\ call = NoCall
    /\ stack = <<>>
    /\ listed = {}

\* const entries = safeReadDir(rootDir)
ListRoot ==
    /\ pc = "list"
    /\ pending' = safeReadDir(tree, <<>>)
    /\ pc' = "loop"
    /\ UNCHANGED <<tree, hasRootCss, styleDirs, stylelintTargets, merge_vars>>

\* One iteration of for (const entry of entries)
VisitEntry ==
    /\ pc = "loop"
    /\ \E entry \in pending :
        /\ pending' = pending \ {entry}
        /\ hasRootCss' =
               (hasRootCss \/ (entry.kind = "file" /\ isStylelintFile(EntryName(entry))))
        /\ styleDirs' =
               IF /\ entry.kind = "directory"
                  /\ EntryName(entry) \notin STYLELINT_SCAN_EXCLUDES
                  /\ directoryContainsStylelintFiles(tree, entry.path, 0)
               THEN styleDirs \cup {EntryName(entry)}
               ELSE styleDirs
    /\ UNCHANGED <<tree, stylelintTargets, pc, merge_vars>>

\* The loop is over: build and return resolvedTargets
ReturnTargets ==
    /\ pc = "loop"
    /\ pending = {}
    /\ stylelintTargets' = findStylelintTargets(hasRootCss, styleDirs)
    /\ pc' = "returned"
    /\ UNCHANGED <<tree, pending, hasRootCss, styleDirs, merge_vars>>

ScanNext ==
    \/ ListRoot
    \/ VisitEntry
    \/ ReturnTargets

ScanSpec == ScanInit /\ [][ScanNext]_vars

(***************************************************************************)
(* Properties.  When pc = "done", existing is the package.json the latest  *)
(* invocation read and disk is the package.json it wrote.                  *)
(***************************************************************************)
Done == pc = "done" /\ javascript /\ form = "object"

\* The defaults the latest invocation merged
RunScripts == DefaultScripts(usesTypeScript, python, stylelintTargets)
RunDevDependencies == getDefaultDevDependencies(usesTypeScript)
RunLintStaged == getDefaultLintStaged(usesTypeScript, stylelintTargets)

\* Some key's lowercased text contains "." followed by a style extension
HasStyleExtensionKey(lintStaged) ==
    \E k \in DOMAIN lintStaged :
        LET lower == ToLowerCase(k)
        IN \E i \in 1..Len(STYLELINT_EXTENSIONS) :
               Includes(lower, "." \o STYLELINT_EXTENSIONS[i])

\* The style-skip rule applies to the pattern in the latest invocation
Suppressed(pattern) ==
    pattern \in Range(stylelintTargets) /\ HasStyleExtensionKey(existing.lintStaged)

\* C1: a second invocation with the same defaults writes exactly what the
\* first one wrote (merge(merge(e, d), d) = merge(e, d)).  The name is not
\* part of the merge and is left out of the comparison.
C1_Idempotent == (Done /\ runs >= 2) => [disk EXCEPT !.name = existing.name] = existing

\* C2: every key of the existing scripts (other than prepare) and of the
\* existing devDependencies has, after the merge, the value it had before,
\* whatever string that value is.
C2_NonDestructive ==
    Done =>
        /\ \A k \in DOMAIN existing.scripts \ {"prepare"} :
               k \in DOMAIN disk.scripts /\ disk.scripts[k] = existing.scripts[k]
        /\ \A k \in DOMAIN existing.devDependencies :
               /\ k \in DOMAIN disk.devDependencies
               /\ disk.devDependencies[k] = existing.devDependencies[k]

\* C3: every default script and default devDependency absent from the
\* existing package.json, and every default lint-staged pattern absent from
\* the existing mapping and not suppressed by the style-skip rule, is in the
\* merged mapping with exactly its default value.
C3_MissingDefaultsAdded ==
    Done =>
        /\ \A k \in DOMAIN RunScripts \ DOMAIN existing.scripts :
               k \in DOMAIN disk.scripts /\ disk.scripts[k] = RunScripts[k]
        /\ \A k \in DOMAIN RunDevDependencies \ DOMAIN existing.devDependencies :
               /\ k \in DOMAIN disk.devDependencies
               /\ disk.devDependencies[k] = RunDevDependencies[k]
        /\ \A p \in DOMAIN RunLintStaged \ DOMAIN existing.lintStaged :
               ~Suppressed(p) =>
                   /\ p \in DOMAIN disk.lintStaged
                   /\ disk.lintStaged[p] = ListValue(RunLintStaged[p])

C3_Witness ==
    /\ Done
    /\ "lint:fix" \notin DOMAIN existing.scripts
    /\ "husky" \notin DOMAIN existing.devDependencies
    /\ \E p \in Range(stylelintTargets) :
           /\ p \notin DOMAIN existing.lintStaged
           /\ ~Suppressed(p)
           /\ p \in DOMAIN disk.lintStaged
    /\ "husky" \in DOMAIN disk.devDependencies
    /\ "lint:fix" \in DOMAIN disk.scripts

\* C4: for every default pattern whose existing value is a list and that the
\* style-skip rule does not suppress, the merged list is the existing list
\* (order and duplicates kept) followed by the default commands that were not
\* members of it, in default order, each at most once.
C4_LintStagedUnion ==
    Done =>
        \A p \in DOMAIN RunLintStaged \cap DOMAIN existing.lintStaged :
            (~Suppressed(p) /\ existing.lintStaged[p].isArray) =>
                LET old == existing.lintStaged[p].list
                    new == disk.lintStaged[p]
                IN /\ new.isArray
                   /\ new.list =
                          old \o SelectSeq(RunLintStaged[p], LAMBDA c : c \notin Range(old))
                   /\ \A c \in Range(RunLintStaged[p]) :
                          Cardinality({i \in (Len(old) + 1)..Len(new.list) :
                                          new.list[i] = c}) <= 1

C4_Witness ==
    /\ Done
    /\ "package.json" \in DOMAIN existing.lintStaged
    /\ existing.lintStaged["package.json"] =
           ListValue(<<"prettier --write", "custom-command", "custom-command">>)
    /\ disk.lintStaged["package.json"] = existing.lintStaged["package.json"]
    /\ \E p \in Range(stylelintTargets) :
           /\ p \in DOMAIN existing.lintStaged
           /\ existing.lintStaged[p] = ListValue(<<"stylelint --fix">>)
           /\ disk.lintStaged[p] = ListValue(<<"stylelint --fix", "prettier --write">>)

\* C5: if some existing lint-staged key contains, lowercased, "." followed by
\* css, scss, sass, less or pcss, then no discovered style-target pattern that
\* was absent has been added and every existing key equal to a style-target
\* pattern keeps its value, however many targets the scan discovered.
C5_StyleSkip ==
    (Done /\ HasStyleExtensionKey(existing.lintStaged)) =>
        \A t \in Range(stylelintTargets) :
            IF t \in DOMAIN existing.lintStaged
            THEN t \in DOMAIN disk.lintStaged
                 /\ disk.lintStaged[t] = existing.lintStaged[t]
            ELSE t \notin DOMAIN disk.lintStaged

C5_Witness ==
    /\ Done
    /\ "Styles/*.SCSS" \in DOMAIN existing.lintStaged
    /\ Len(stylelintTargets) = 3
    /\ \E t \in Range(stylelintTargets) :
           t \in DOMAIN existing.lintStaged /\ ~existing.lintStaged[t].isArray
    /\ \E t \in Range(stylelintTargets) : t \notin DOMAIN disk.lintStaged

\* A glob that selects style-sheet files: it names a style extension after a
\* "." or as an alternative of a brace group
SelectsStyleSheets(pattern) ==
    LET lower == ToLowerCase(pattern)
    IN \E i \in 1..Len(STYLELINT_EXTENSIONS) :
           \/ Includes(lower, "." \o STYLELINT_EXTENSIONS[i])
           \/ \E open \in {"{", ","}, close \in {",", "}"} :
                  Includes(lower, open \o STYLELINT_EXTENSIONS[i] \o close)

\* C6: whenever an existing lint-staged key is a glob that selects style-sheet
\* files, brace-group forms included, the invocation leaves that key and its
\* commands unchanged and adds no default stylelint target key.
C6_CustomCssGlobsKept ==
    (Done /\ \E k \in DOMAIN existing.lintStaged : SelectsStyleSheets(k)) =>
        /\ \A k \in DOMAIN existing.lintStaged :
               SelectsStyleSheets(k) =>
                   k \in DOMAIN disk.lintStaged
                   /\ disk.lintStaged[k] = existing.lintStaged[k]
        /\ \A t \in Range(stylelintTargets) :
               t \notin DOMAIN existing.lintStaged => t \notin DOMAIN disk.lintStaged

\* scripts.prepare of the package.json the latest invocation read and wrote
PrepareBefore == existing.scripts["prepare"]
PrepareAfter == disk.scripts["prepare"]

\* C7: if the existing scripts have no prepare key, the merged scripts.prepare
\* is exactly "husky".
C7_PrepareAbsent ==
    (Done /\ "prepare" \notin DOMAIN existing.scripts) =>
        "prepare" \in DOMAIN disk.scripts /\ PrepareAfter = "husky"

C7_Witness ==
    /\ Done
    /\ "prepare" \notin DOMAIN existing.scripts
    /\ "lint" \in DOMAIN existing.scripts
    /\ PrepareAfter = "husky"

\* The positions of s at which an occurrence of "husky install" starts
LegacyStarts(s) ==
    {i \in 1..Len(s) : i + Len(HUSKY_INSTALL) - 1 <= Len(s)
                       /\ SubSeq(s, i, i + Len(HUSKY_INSTALL) - 1) = HUSKY_INSTALL}

\* The positions of s that hold the " install" of an occurrence of "husky install"
LegacyTail(s) ==
    {j \in 1..Len(s) : \E i \in LegacyStarts(s) :
        i + Len("husky") <= j /\ j < i + Len(HUSKY_INSTALL)}

RECURSIVE WithoutPositions(_, _, _)
\* The characters of s from position j on whose position is not in dropped
WithoutPositions(s, dropped, j) ==
    IF j > Len(s) THEN ""
    ELSE (IF j \in dropped THEN "" ELSE SubSeq(s, j, j))
         \o WithoutPositions(s, dropped, j + 1)

\* C8: if the existing scripts.prepare contains "husky install", the merged
\* scripts.prepare is the existing string with each "husky install" rewritten to
\* "husky" and every other character kept in place.
C8_PrepareLegacy ==
    (Done /\ "prepare" \in DOMAIN existing.scripts
          /\ Includes(PrepareBefore, HUSKY_INSTALL)) =>
        PrepareAfter = WithoutPositions(PrepareBefore, LegacyTail(PrepareBefore), 1)

C8_Witness ==
    /\ Done
    /\ "prepare" \in DOMAIN existing.scripts
    /\ PrepareBefore = "husky install && husky install"
    /\ PrepareAfter = "husky && husky"

\* C9 as stated: if the existing scripts.prepare is present and contains neither
\* "husky install" nor "husky", the merged one is "<existing> && husky"; if it
\* contains "husky" and not "husky install", it is unchanged.
C9_PrepareAppendAnyString ==
    (Done /\ "prepare" \in DOMAIN existing.scripts) =>
        /\ (~Includes(PrepareBefore, HUSKY_INSTALL) /\ ~Includes(PrepareBefore, "husky"))
               => PrepareAfter = PrepareBefore \o " && husky"
        /\ (Includes(PrepareBefore, "husky") /\ ~Includes(PrepareBefore, HUSKY_INSTALL))
               => PrepareAfter = PrepareBefore

\* C9 amended: if the existing scripts.prepare is present, not empty, and
\* contains neither "husky install" nor "husky", the merged one is
\* "<existing> && husky"; an empty one becomes "husky"; one that contains
\* "husky" and not "husky install" is unchanged.
C9_PrepareAppend ==
    (Done /\ "prepare" \in DOMAIN existing.scripts) =>
        /\ (PrepareBefore # "" /\ ~Includes(PrepareBefore, HUSKY_INSTALL)
                               /\ ~Includes(PrepareBefore, "husky"))
               => PrepareAfter = PrepareBefore \o " && husky"
        /\ PrepareBefore = "" => PrepareAfter = "husky"
        /\ (Includes(PrepareBefore, "husky") /\ ~Includes(PrepareBefore, HUSKY_INSTALL))
               => PrepareAfter = PrepareBefore

C9_Witness ==
    /\ Done
    /\ runs = 1
    /\ "prepare" \in DOMAIN existing.scripts
    /\ PrepareBefore = "build"
    /\ PrepareAfter = "build && husky"

Returned == pc = "returned"

BlanketGlob == "**/*.{css,scss,sass,less,pcss}"
RootGlob == "*.{css,scss,sass,less,pcss}"
DirectoryGlob(dir) == dir \o "/**/*.{css,scss,sass,less,pcss}"

\* A style file lies directly in the root of t
RootHasStyleFile(t) ==
    \E entry \in safeReadDir(t, <<>>) :
        entry.kind = "file" /\ isStylelintFile(EntryName(entry))

\* The top-level directories of t the scan marks as targets
MarkedDirectories(t) ==
    {EntryName(entry) : entry \in
        {e \in safeReadDir(t, <<>>) :
            /\ e.kind = "directory"
            /\ EntryName(e) \notin STYLELINT_SCAN_EXCLUDES
            /\ directoryContainsStylelintFiles(t, e.path, 0)}}

\* C11: findStylelintTargets never returns an empty sequence, and when no
\* style file lies directly in the root and no top-level directory is marked
\* (an empty root included) it returns exactly the one blanket glob.
C11_ScanNeverEmpty ==
    Returned =>
        /\ Len(stylelintTargets) > 0
        /\ (~RootHasStyleFile(tree) /\ MarkedDirectories(tree) = {})
               => stylelintTargets = <<BlanketGlob>>

\* Nothing found in a root that does hold entries, a directory among them
C11_Witness ==
    /\ Returned
    /\ ~RootHasStyleFile(tree)
    /\ MarkedDirectories(tree) = {}
    /\ \E entry \in tree.entries : entry.kind = "directory"
    /\ stylelintTargets = <<BlanketGlob>>

\* The globs of the result that follow the root-level glob, if there is one
DirectoryPart(result) ==
    IF Len(result) > 0 /\ result[1] = RootGlob THEN Tail(result) ELSE result

\* C12: for every tree and every order in which the listing returns the
\* root entries, the result is the same sequence: the root-level glob first
\* if and only if a style file lies directly in the root, then one glob per
\* marked top-level directory in ascending order, no directory twice.  (When
\* that sequence would be empty the result is the fallback of C11.)
C12_ScanOrder ==
    Returned =>
        LET marked == MarkedDirectories(tree)
            found == RootHasStyleFile(tree) \/ marked # {}
            dirs == DirectoryPart(stylelintTargets)
        IN /\ found => (RootHasStyleFile(tree) <=> stylelintTargets[1] = RootGlob)
           /\ found => Len(dirs) = Cardinality(marked)
           /\ found =>
                \A i \in 1..Len(dirs) :
                    \E d \in marked :
                        /\ dirs[i] = DirectoryGlob(d)
                        /\ Cardinality({e \in marked : StringLess(e, d)}) = i - 1
           /\ ~found => stylelintTargets = <<BlanketGlob>>

\* A root style file and three marked directories, one of them capitalised
C12_Witness ==
    /\ Returned
    /\ RootHasStyleFile(tree)
    /\ MarkedDirectories(tree) = {"Styles", "public", "src"}
    /\ stylelintTargets =
           <<RootGlob, DirectoryGlob("Styles"), DirectoryGlob("public"),
             DirectoryGlob("src")>>

\* The names of the directories directly in the root of t
TopLevelDirectories(t) ==
    {EntryName(entry) : entry \in {e \in safeReadDir(t, <<>>) : e.kind = "directory"}}

IsDirectoryGlob(t, glob) == \E d \in TopLevelDirectories(t) : glob = DirectoryGlob(d)

\* C13 as stated: the result is either exactly the blanket glob (no marked
\* directory, style files only in the root included) or made only of
\* per-directory globs, the latter only without a style file in the root.
C13_BlanketOrDirectoriesOnly ==
    Returned =>
        \/ stylelintTargets = <<BlanketGlob>> /\ MarkedDirectories(tree) = {}
        \/ /\ \A i \in 1..Len(stylelintTargets) : IsDirectoryGlob(tree, stylelintTargets[i])
           /\ ~RootHasStyleFile(tree)

\* C13, amended: the result is exactly the blanket glob only when nothing
\* was found; otherwise it is the root-level glob, present (and first) if
\* and only if a style file lies directly in the root, and per-directory
\* globs for the rest.
C13_ResultShape ==
    Returned =>
        \/ /\ stylelintTargets = <<BlanketGlob>>
           /\ ~RootHasStyleFile(tree)
           /\ MarkedDirectories(tree) = {}
        \/ /\ RootHasStyleFile(tree) \/ MarkedDirectories(tree) # {}
           /\ \A i \in 1..Len(stylelintTargets) :
                IF i = 1 /\ RootHasStyleFile(tree)
                THEN stylelintTargets[i] = RootGlob
                ELSE IsDirectoryGlob(tree, stylelintTargets[i])

\* Style files only directly in the root: the root-level glob, not the blanket
C13_Witness ==
    /\ Returned
    /\ RootHasStyleFile(tree)
    /\ MarkedDirectories(tree) = {}
    /\ TopLevelDirectories(tree) # {}
    /\ stylelintTargets = <<RootGlob>>

(***************************************************************************)
(* Properties of the whole run.  pc = "failed" is process.exit(1) and      *)
(* pc = "done" is the end of the script, exit code 0; filesBefore and      *)
(* writes tell what the running invocation has done to the directory.      *)
(***************************************************************************)
Exited == pc \in {"done", "failed"}
ExitCode == IF pc = "failed" THEN 1 ELSE 0

\* package.json exists and is empty, unparseable or not a mapping
Malformed ==
    form \in {"empty", "unparseable", "null", "number", "string", "boolean", "array"}

\* C14: when package.json exists and is empty, unparseable or parses to a
\* value that is not a mapping (null, number, string, boolean, array), the
\* run ends with exit code 1 and package.json is not rewritten.
C14_MalformedRejected ==
    Malformed => /\ Exited => ExitCode = 1
                 /\ writes = 0

\* C15: a run that rejects package.json as malformed halts without having
\* created or modified any file, whatever languages were detected.
C15_FailBeforeMutation ==
    (pc = "failed" /\ git) => (files = filesBefore /\ writes = 0)

\* C16: when 'git status' fails, the run exits with code 1 before language
\* detection and before any file is created or modified.
C16_GitPrecondition ==
    ~git => /\ pc \in {"start", "failed"}
            /\ Exited => ExitCode = 1
            /\ ~javascript /\ ~usesTypeScript /\ ~python
            /\ files = filesBefore
            /\ writes = 0

\* Outside a repository, in a project the run would otherwise have changed
C16_Witness ==
    /\ ~git
    /\ pc = "failed"
    /\ form = "object"
    /\ ExistsSync(files, "requirements.txt")
    /\ ExistsSync(files, "tsconfig.json")
    /\ ~ExistsSync(files, ".editorconfig")

\* C17: a run in a repository without package.json and without another
\* language marker does not fail, merges the defaults into an empty
\* configuration and writes the resulting package.json.
C17_AbsentTreatedAsEmpty ==
    (Exited /\ git /\ ~javascript /\ ~python) =>
        /\ ExitCode = 0
        /\ form = "object"
        /\ writes > 0
        /\ \A name \in DOMAIN RunScripts :
              name \in DOMAIN disk.scripts /\ disk.scripts[name] = RunScripts[name]
        /\ \A name \in DOMAIN RunDevDependencies :
              /\ name \in DOMAIN disk.devDependencies
              /\ disk.devDependencies[name] = RunDevDependencies[name]
        /\ \A pattern \in DOMAIN RunLintStaged : pattern \in DOMAIN disk.lintStaged

\* The value under key of the object after the run: the one it had, or else
\* the pin
KeptOrPinned(before, after, key, pin) ==
    /\ key \in DOMAIN after
    /\ after[key] = (IF key \in DOMAIN before THEN before[key] ELSE pin)

\* C19: after a successful run engines.node, volta.node and volta.npm hold
\* the value the project had before the run if it had one and otherwise
\* '>=20', '20.11.1' and '10.2.4'; every other key under engines or volta
\* keeps its value.
C19_PinsOnlyWhenMissing ==
    Done =>
        /\ KeptOrPinned(existing.engines, disk.engines, "node", ">=20")
        /\ KeptOrPinned(existing.volta, disk.volta, "node", "20.11.1")
        /\ KeptOrPinned(existing.volta, disk.volta, "npm", "10.2.4")
        /\ \A key \in DOMAIN existing.engines :
              key \in DOMAIN disk.engines /\ disk.engines[key] = existing.engines[key]
        /\ \A key \in DOMAIN existing.volta :
              key \in DOMAIN disk.volta /\ disk.volta[key] = existing.volta[key]
        /\ DOMAIN disk.engines = DOMAIN existing.engines \cup {"node"}
        /\ DOMAIN disk.volta = DOMAIN existing.volta \cup {"node", "npm"}

\* The project pinned Node itself and had other keys; volta.npm was missing
C19_Witness ==
    /\ Done
    /\ runs = 1
    /\ existing.engines = ("node" :> "18") @@ ("npm" :> "18")
    /\ existing.volta = ("node" :> "18.0.0") @@ ("yarn" :> "18.0.0")
    /\ disk.engines = existing.engines
    /\ disk.volta = existing.volta @@ ("npm" :> "10.2.4")

\* C20: every configuration file other than package.json that exists before
\* a run has the same content after it, with and without TypeScript.
C20_ExistingFilesPreserved ==
    pc = "done" =>
        \A name \in CONFIG_FILES \cap DOMAIN filesBefore :
            name \in DOMAIN files /\ files[name] = filesBefore[name]

(***************************************************************************)
(* Properties of successive runs with changed defaults (ChangeSpec): in a  *)
(* done state with runs = 2, existing is package.json after the first run  *)
(* and RunScripts, RunDevDependencies are the second run's defaults.       *)
(***************************************************************************)
\* C18: when the second of two successive runs computes other defaults,
\* every scripts and devDependencies value present after the first run is
\* unchanged after the second, and every key of the second run's defaults
\* missing after the first run is added with the second run's value.
C18_ChangedDefaultsMissingKeysOnly ==
    (Done /\ runs = 2) =>
        /\ \A name \in DOMAIN existing.scripts :
              name \in DOMAIN disk.scripts /\ disk.scripts[name] = existing.scripts[name]
        /\ \A name \in DOMAIN existing.devDependencies :
              /\ name \in DOMAIN disk.devDependencies
              /\ disk.devDependencies[name] = existing.devDependencies[name]
        /\ \A name \in DOMAIN RunScripts \ DOMAIN existing.scripts :
              name \in DOMAIN disk.scripts /\ disk.scripts[name] = RunScripts[name]
        /\ \A name \in DOMAIN RunDevDependencies \ DOMAIN existing.devDependencies :
              /\ name \in DOMAIN disk.devDependencies
              /\ disk.devDependencies[name] = RunDevDependencies[name]

(***************************************************************************)
(* Properties of the files and of the package.json the run leaves behind.  *)
(***************************************************************************)
HadNone(names) == \A name \in names : ~ExistsSync(filesBefore, name)

C22_LegacyMigrated ==
    (Done /\ runs = 1 /\ "prepare" \in DOMAIN existing.scripts) =>
        /\ Includes(PrepareAfter, "husky")
        /\ ~Includes(PrepareAfter, "husky install")

(***************************************************************************)
(* Properties of the walk below the top-level directories (ScanSpec).  In  *)
(* a returned state styleDirs is the set of directories the walk marked.   *)
(***************************************************************************)
\* The entry of t at path, if t has one
IsEntry(t, path, kind) == \E entry \in t.entries : entry.path = path /\ entry.kind = kind

\* path is a directory the walk can list: a real directory, not a symbolic
\* link, not excluded by name, and its listing succeeds
Listable(t, path) ==
    /\ IsEntry(t, path, "directory")
    /\ path[Len(path)] \notin STYLELINT_SCAN_EXCLUDES
    /\ path \notin t.unreadable

\* The style files of t below the top-level directory top whose parent is
\* at most limit levels below top, every directory on the way listable
StyleFilesWithin(t, top, limit) ==
    {entry \in t.entries :
        /\ entry.kind = "file"
        /\ isStylelintFile(EntryName(entry))
        /\ Len(entry.path) >= 2
        /\ entry.path[1] = top
        /\ Len(entry.path) - 2 <= limit
        /\ \A j \in 1..(Len(entry.path) - 1) : Listable(t, SubSeq(entry.path, 1, j))}

\* C23: a top-level directory is marked exactly when a style file lies
\* beneath it whose parent directory is at most 4 levels below it, reached
\* only through non-symlink, non-excluded directories; a directory whose
\* only style files sit deeper is not marked.
C23_DepthBound ==
    Returned =>
        \A top \in {EntryName(entry) : entry \in safeReadDir(tree, <<>>)} :
            top \in styleDirs <=> StyleFilesWithin(tree, top, 4) # {}

\* The only style file of src has its parent exactly 4 levels below src
C23_Witness ==
    /\ Returned
    /\ "src" \in styleDirs
    /\ IsEntry(tree, <<"src", "nested", "nested", "nested", "nested", "app.css">>, "file")
    /\ tree.unreadable = {}

\* What the scan returns for t, as a function of the tree
ScanResult(t) == findStylelintTargets(RootHasStyleFile(t), MarkedDirectories(t))

\* t without its symbolic links and without what lies behind them
WithoutSymlinks(t) ==
    [t EXCEPT !.entries =
        {entry \in @ :
            \A j \in 1..Len(entry.path) :
                ~IsEntry(t, SubSeq(entry.path, 1, j), "symlink")}]

\* C24: the symbolic links of a tree, at the root or at any depth, do not
\* change the result: it is the result for the tree without them.
C24_SymlinksInvisible ==
    Returned => stylelintTargets = ScanResult(WithoutSymlinks(tree))

\* A link named like a style file at the root and, inside src, a link to a
\* directory that holds a style file; nothing else to find
C24_Witness ==
    /\ Returned
    /\ IsEntry(tree, <<"link.css">>, "symlink")
    /\ IsEntry(tree, <<"src", "loop">>, "symlink")
    /\ IsEntry(tree, <<"src", "loop", "app.css">>, "file")
    /\ stylelintTargets = <<BlanketGlob>>

\* t with every directory whose listing fails made readable and empty
UnreadableAsEmpty(t) ==
    [entries |->
        {entry \in t.entries :
            \A j \in 0..(Len(entry.path) - 1) :
                SubSeq(entry.path, 1, j) \notin t.unreadable},
     unreadable |-> {}]

\* C25: a directory whose listing fails is treated as having no entries and
\* the scan still returns; an unreadable root yields exactly the blanket
\* glob and an unreadable top-level directory is no target.
C25_UnreadableAsEmpty ==
    Returned =>
        /\ stylelintTargets = ScanResult(UnreadableAsEmpty(tree))
        /\ <<>> \in tree.unreadable => stylelintTargets = <<BlanketGlob>>
        /\ \A dir \in tree.unreadable : Len(dir) = 1 => dir[1] \notin styleDirs

\* src holds a style file but cannot be listed, and the root holds one too
C25_Witness ==
    /\ Returned
    /\ <<"src">> \in tree.unreadable
    /\ IsEntry(tree, <<"src", "app.css">>, "file")
    /\ IsEntry(tree, <<"app.css">>, "file")
    /\ stylelintTargets = <<RootGlob>>



\* C26: when the pins step fails after the main write, the run only warns: it still
\* reaches the shared files and completion with exit status 0, and package.json
\* holds what the main write put there
C26_PinsFailureIsWarning ==
    (javascript /\ PINS_WARNING \in warnings) =>
        /\ pc \in {"shared", "done"}
        /\ Exited => ExitCode = 0 /\ ExistsSync(files, ".editorconfig")
        /\ writes = 1
        /\ form = "object" => disk = packageJson

C26_Witness ==
    /\ pc = "done" /\ javascript /\ form = "object"
    /\ PINS_WARNING \in warnings
    /\ disk = packageJson
    /\ disk # existing
    /\ "lint" \in DOMAIN disk.scripts
    /\ "node" \notin DOMAIN disk.engines


\* ---------------------------------------------------------------------------
\* getDefaultScripts called on its own
\* ---------------------------------------------------------------------------

MaxTargets == 3

TargetInputs == {"", RootGlob, DirectoryGlob("public"), DirectoryGlob("src")}

TargetSequences == UNION {[1..n -> TargetInputs] : n \in 0..MaxTargets}

\* { typescript, stylelintTargets }: with or without the stylelintTargets property
CallInputs ==
    {[typescript |-> ts, given |-> TRUE, stylelintTargets |-> targets, scripts |-> NoEntries] :
        ts \in BOOLEAN, targets \in TargetSequences}
    \cup {[typescript |-> ts, given |-> FALSE, stylelintTargets |-> <<>>, scripts |-> NoEntries] :
        ts \in BOOLEAN}

\* Array.isArray(stylelintTargets) ? stylelintTargets : [] for a property that is undefined
TargetsArgument(options) ==
    IF options.given THEN options.stylelintTargets ELSE <<>>

LintInit ==
    /\ call \in CallInputs
    /\ pc = "call"
    /\ disk = EmptyPackage
    /\ packageJson = EmptyPackage
    /\ existing = EmptyPackage
    /\ stylelintTargets = <<>>
    /\ hasRootCss = FALSE
    /\ styleDirs = {}
    /\ usesTypeScript = FALSE
    /\ python = FALSE
    /\ javascript = TRUE
    /\ git = TRUE
    /\ form = "object"
    /\ files = NoEntries
    /\ filesBefore = NoEntries
    /\ tree = EmptyTree
    /\ pending = {}
    /\ runs = 0
    /\ writes = 0
    /\ warnings = {}
    /\ stack = <<>>
    /\ listed = {}

CallGetDefaultScripts ==
    /\ pc = "call"
    /\ call' = [call EXCEPT
                    !.scripts = getDefaultScripts(call.typescript, TargetsArgument(call))]
    /\ pc' = "returned"
    /\ UNCHANGED <<disk, files, filesBefore, packageJson, stylelintTargets, existing, writes,
                   runs, project_vars, detection_vars, scan_vars, warnings, stack, listed>>

LintNext == CallGetDefaultScripts

LintSpec == LintInit /\ [][LintNext]_vars

RECURSIVE IndexOf(_, _, _)
\* Position of the first occurrence of needle in text at or after position i, 0 if none
IndexOf(text, needle, i) ==
    IF i + Len(needle) - 1 > Len(text) THEN 0
    ELSE IF SubSeq(text, i, i + Len(needle) - 1) = needle THEN i
    ELSE IndexOf(text, needle, i + 1)

\* What a command passes to stylelint between the double quotes
StylelintArgument(command) ==
    LET first == IndexOf(command, "stylelint \"", 1) + Len("stylelint \"")
        last == IndexOf(command, "\"", first) - 1
    IN SubSeq(command, first, last)

RECURSIVE DistinctTargets(_)
\* The distinct non-empty elements of a sequence, in the order they first appear
DistinctTargets(seq) ==
    IF seq = <<>> THEN <<>>
    ELSE LET rest == DistinctTargets(SelectSeq(Tail(seq), LAMBDA t : t # Head(seq)))
         IN IF Head(seq) = "" THEN rest ELSE <<Head(seq)>> \o rest

\* The argument the claim expects for the distinct targets
ExpectedStyleArgument(distinct) ==
    IF Len(distinct) = 1 THEN distinct[1] ELSE "{" \o Join(distinct, ",") \o "}"

\* C27: lint and lint:fix pass to stylelint the bare target when the sequence has one
\* distinct non-empty element, the brace group of the distinct targets in their given
\* order when it has more, and the default glob when the sequence is absent or empty
C27_LintStyleTarget ==
    pc = "returned" =>
        LET distinct == DistinctTargets(call.stylelintTargets)
        IN \A script \in {"lint", "lint:fix"} :
            LET argument == StylelintArgument(call.scripts[script])
            IN /\ Len(distinct) >= 1 => argument = ExpectedStyleArgument(distinct)
               /\ (~call.given \/ call.stylelintTargets = <<>>) =>
                      argument = "**/*.{css,scss,sass,less,pcss}"

C27_Witness ==
    /\ pc = "returned"
    /\ call.stylelintTargets = <<RootGlob, "", RootGlob>>
    /\ StylelintArgument(call.scripts["lint"]) = RootGlob
    /\ StylelintArgument(call.scripts["lint:fix"]) = RootGlob


\* ---------------------------------------------------------------------------
\* findStylelintTargets, one listing and one loop iteration at a time
\* ---------------------------------------------------------------------------

\* A symbolic link named "cycle" points to the directory that holds it
CycleTarget(path) == SubSeq(path, 1, Len(path) - 1)

\* A top-level directory holding a link back to itself, with or without a style file
CycleShapes(top) ==
    {{Entry(<<top>>, "directory"), Entry(<<top, "cycle">>, "symlink")},
     {Entry(<<top>>, "directory"), Entry(<<top, "cycle">>, "symlink"),
      Entry(<<top, "app.css">>, "file")},
     {Entry(<<top>>, "directory"), Entry(<<top, "nested">>, "directory"),
      Entry(<<top, "nested", "cycle">>, "symlink")}}

\* The links of a tree that lead back into the tree, link path to target path
LinksOf(entries) ==
    [path \in {entry.path : entry \in {e \in entries :
                    e.kind = "symlink" /\ EntryName(e) = "cycle"}} |-> CycleTarget(path)]

WalkTree(entries, unreadable) ==
    [entries |-> entries, unreadable |-> unreadable, links |-> LinksOf(entries)]

WalkTrees ==
    {WalkTree(rootFiles \cup src \cup public, {}) :
        rootFiles \in {{}, {Entry(<<"app.css">>, "file")}, {Entry(<<"link.css">>, "symlink")}},
        src \in DirectoryShapes("src"),
        public \in SimpleShapes("public") \cup CycleShapes("public")}
    \cup {WalkTree(src, {dir}) :
        src \in DirectoryShapes("src"), dir \in {<<>>, <<"src">>, <<"src", "nested">>}}

RECURSIVE ResolveDir(_, _)
\* The directory the operating system opens for a path: every link on the way is followed
ResolveDir(t, dir) ==
    LET linked == {i \in 1..Len(dir) : SubSeq(dir, 1, i) \in DOMAIN t.links}
    IN IF linked = {} THEN dir
       ELSE LET i == CHOOSE k \in linked : \A j \in linked : k <= j
            IN ResolveDir(t, t.links[SubSeq(dir, 1, i)] \o SubSeq(dir, i + 1, Len(dir)))

\* safeReadDir(dir) with path.join(dir, entry.name) as the path of each entry
readDirAt(t, dir) ==
    {Entry(dir \o <<EntryName(entry)>>, entry.kind) : entry \in safeReadDir(t, ResolveDir(t, dir))}

\* A call directoryContainsStylelintFiles(dir, depth) that has yet to reach its first line
Frame(dir, depth) == [dir |-> dir, depth |-> depth, entered |-> FALSE, entries |-> {}]

\* variant: isFile() and isDirectory() answer for what a link points to
EntryOutcome_FollowLinks(entry) ==
    IF entry.kind \in {"file", "symlink"} /\ isStylelintFile(EntryName(entry)) THEN "return true"
    ELSE IF /\ entry.kind \in {"directory", "symlink"}
            /\ EntryName(entry) \notin STYLELINT_SCAN_EXCLUDES
         THEN "recurse"
         ELSE "continue"

\* What one iteration of the loop of directoryContainsStylelintFiles does with an entry
EntryOutcome(entry) ==
    IF entry.kind = "symlink" THEN "continue"
    ELSE IF entry.kind = "file" /\ isStylelintFile(EntryName(entry)) THEN "return true"
    ELSE IF entry.kind = "directory" /\ EntryName(entry) \notin STYLELINT_SCAN_EXCLUDES
         THEN "recurse"
         ELSE "continue"

\* The caller of the innermost call gets false and goes on with its loop
ReturnFalse ==
    /\ stack' = SubSeq(stack, 1, Len(stack) - 1)
    /\ pc' = IF Len(stack) = 1 THEN "loop" ELSE "walk"
    /\ UNCHANGED <<styleDirs, listed>>

WalkInit ==
    /\ tree \in WalkTrees
    /\ pending = {}
    /\ hasRootCss = FALSE
    /\ styleDirs = {}
    /\ stylelintTargets = <<>>
    /\ pc = "list"
    /\ stack = <<>>
    /\ listed = {}
    /\ disk = EmptyPackage
    /\ usesTypeScript = FALSE
    /\ python = FALSE
    /\ packageJson = EmptyPackage
    /\ existing = EmptyPackage
    /\ runs = 0
    /\ git = TRUE
    /\ form = "object"
    /\ files = NoEntries
    /\ filesBefore = NoEntries
    /\ javascript = TRUE
    /\ writes = 0
    /\ warnings = {}
    /\ call = NoCall

walk_vars == <<disk, usesTypeScript, python, packageJson, existing, runs, git, form,
               files, filesBefore, javascript, writes, warnings, call>>

\* const entries = safeReadDir(rootDir)
WalkListRoot ==
    /\ pc = "list"
    /\ pending' = readDirAt(tree, <<>>)
    /\ pc' = "loop"
    /\ UNCHANGED <<tree, hasRootCss, styleDirs, stylelintTargets, stack, listed, walk_vars>>

\* One iteration of the loop of findStylelintTargets, up to the call for a directory
WalkRootEntry ==
    /\ pc = "loop"
    /\ \E entry \in pending :
        /\ pending' = pending \ {entry}
        /\ hasRootCss' =
               (hasRootCss \/ (entry.kind = "file" /\ isStylelintFile(EntryName(entry))))
        /\ IF entry.kind = "directory" /\ EntryName(entry) \notin STYLELINT_SCAN_EXCLUDES
           THEN stack' = <<Frame(entry.path, 0)>> /\ pc' = "walk"
           ELSE UNCHANGED <<stack, pc>>
    /\ UNCHANGED <<tree, styleDirs, stylelintTargets, listed, walk_vars>>

\* The depth test and the listing at the head of directoryContainsStylelintFiles
EnterDirectory ==
    /\ pc = "walk"
    /\ ~stack[Len(stack)].entered
    /\ LET top == stack[Len(stack)]
       IN IF top.depth > MAX_STYLELINT_SCAN_DEPTH
          THEN ReturnFalse
          ELSE /\ stack' = [stack EXCEPT ![Len(stack)] =
                               [@ EXCEPT !.entered = TRUE,
                                         !.entries = readDirAt(tree, top.dir)]]
               /\ listed' = listed \cup {[dir |-> top.dir, depth |-> top.depth]}
               /\ UNCHANGED <<styleDirs, pc>>
    /\ UNCHANGED <<tree, pending, hasRootCss, stylelintTargets, walk_vars>>

\* One iteration of the loop of directoryContainsStylelintFiles.  A true result is
\* handed up by every caller at once, and findStylelintTargets adds the directory.
WalkEntry ==
    /\ pc = "walk"
    /\ stack[Len(stack)].entered
    /\ \E entry \in stack[Len(stack)].entries :
        LET top == stack[Len(stack)]
            rest == [stack EXCEPT ![Len(stack)] = [@ EXCEPT !.entries = @ \ {entry}]]
        IN CASE EntryOutcome(entry) = "return true" ->
                    /\ stack' = <<>>
                    /\ styleDirs' = styleDirs \cup {stack[1].dir[1]}
                    /\ pc' = "loop"
             [] EntryOutcome(entry) = "recurse" ->
                    /\ stack' = Append(rest, Frame(entry.path, top.depth + 1))
                    /\ UNCHANGED <<styleDirs, pc>>
             [] OTHER ->
                    /\ stack' = rest
                    /\ UNCHANGED <<styleDirs, pc>>
    /\ UNCHANGED <<tree, pending, hasRootCss, stylelintTargets, listed, walk_vars>>

\* The loop of directoryContainsStylelintFiles is over: return false
LeaveDirectory ==
    /\ pc = "walk"
    /\ stack[Len(stack)].entered
    /\ stack[Len(stack)].entries = {}
    /\ ReturnFalse
    /\ UNCHANGED <<tree, pending, hasRootCss, stylelintTargets, walk_vars>>

\* The loop of findStylelintTargets is over: build and return resolvedTargets
WalkReturnTargets ==
    /\ pc = "loop"
    /\ pending = {}
    /\ stylelintTargets' = findStylelintTargets(hasRootCss, styleDirs)
    /\ pc' = "returned"
    /\ UNCHANGED <<tree, pending, hasRootCss, styleDirs, stack, listed, walk_vars>>

WalkNext ==
    \/ WalkListRoot
    \/ WalkRootEntry
    \/ EnterDirectory
    \/ WalkEntry
    \/ LeaveDirectory
    \/ WalkReturnTargets

\* The scan is synchronous code on one thread: while a step is left to take,
\* the next one is taken
WalkSpec == WalkInit /\ [][WalkNext]_vars /\ WF_vars(WalkNext)

\* A link lies on the way to the directory
BehindLink(t, dir) ==
    \E i \in 1..Len(dir) : IsEntry(t, SubSeq(dir, 1, i), "symlink")

\* C28: the scan of every finite tree returns, cyclic links and nesting beyond the
\* depth bound included; it lists no directory more than 4 levels below its
\* top-level directory and none that is reached through a symbolic link
C28_ScanTerminates ==
    /\ <>(pc = "returned")
    /\ [](\A l \in listed :
            /\ Len(l.dir) - 1 <= 4
            /\ l.depth = Len(l.dir) - 1
            /\ ~BehindLink(tree, l.dir))

C28_Witness ==
    /\ pc = "returned"
    /\ IsEntry(tree, <<"public", "cycle">>, "symlink")
    /\ IsEntry(tree, NestedPath("src", MaxNesting) \o <<"app.css">>, "file")
    /\ [dir |-> NestedPath("src", 4), depth |-> 4] \in listed
    /\ [dir |-> <<"public">>, depth |-> 0] \in listed
    /\ stylelintTargets = <<BlanketGlob>>


\* The directory names the scan is said to stay out of
ExcludedNames ==
    {".git", ".github", ".husky", ".next", ".nuxt", ".output", ".turbo", ".vercel",
     ".cache", ".pnpm-store", "coverage", "node_modules"}

\* The style files anywhere beneath a top-level directory
StyleFilesUnder(t, top) ==
    {entry \in t.entries :
        /\ entry.kind = "file"
        /\ isStylelintFile(EntryName(entry))
        /\ Len(entry.path) >= 2
        /\ entry.path[1] = top}

\* The tree without whatever lies inside a directory of an excluded name
WithoutExcluded(t) ==
    [entries |-> {entry \in t.entries :
            \A j \in 1..(Len(entry.path) - 1) : entry.path[j] \notin ExcludedNames},
     unreadable |-> t.unreadable]

\* C29: a directory whose name is exactly one of the excluded names is never
\* descended into, at the root or inside a scanned directory: the result is that
\* for the tree with those directories empty, no excluded name is marked, and a
\* name differing from an excluded one in case only is scanned like any other
C29_ExclusionsAtEveryDepth ==
    Returned =>
        /\ stylelintTargets = ScanResult(WithoutExcluded(tree))
        /\ styleDirs \cap ExcludedNames = {}
        /\ \A top \in {"src", "public", "Styles"} :
              (/\ StyleFilesUnder(tree, top) # {}
               /\ \A entry \in StyleFilesUnder(tree, top) :
                     \E j \in 2..(Len(entry.path) - 1) : entry.path[j] \in ExcludedNames)
                  => top \notin styleDirs

C29_Witness ==
    /\ Returned
    /\ IsEntry(tree, <<"src", "node_modules", "app.css">>, "file")
    /\ IsEntry(tree, <<"Coverage", "app.css">>, "file")
    /\ "src" \notin styleDirs
    /\ "Coverage" \in styleDirs

C29_WitnessNestedCase ==
    /\ Returned
    /\ IsEntry(tree, <<"src", "Node_Modules", "app.css">>, "file")
    /\ IsEntry(tree, <<".git", "app.css">>, "file")
    /\ styleDirs = {"src"}


RECURSIVE WithoutUnsafe(_)
\* The text with every < > ' " & left out
WithoutUnsafe(text) ==
    IF text = "" THEN ""
    ELSE LET front == WithoutUnsafe(SubSeq(text, 1, Len(text) - 1))
             last == SubSeq(text, Len(text), Len(text))
         IN IF last \in {"<", ">", "'", "\"", "&"} THEN front ELSE front \o last

\* The text from its first to its last character that is not white space
Trimmed(text) ==
    LET inked == {i \in 1..Len(text) : SubSeq(text, i, i) \notin {" ", "\t", "\n"}}
    IN IF inked = {} THEN ""
       ELSE SubSeq(text, CHOOSE i \in inked : \A j \in inked : i <= j,
                         CHOOSE i \in inked : \A j \in inked : j <= i)

\* The name a run leaves for a name it found, given what sanitising does to a text
NameAfter(name, sanitised) ==
    IF name.type = "string" /\ name.text # ""
    THEN JsValue("string", IF sanitised = "" THEN "my-project" ELSE sanitised)
    ELSE name

\* C30 as stated: a successful run leaves every other top-level key as it was, and
\* a name is replaced by itself without < > ' " &, or by 'my-project' if that is empty
C30_FrameNameWithoutUnsafe ==
    Done =>
        /\ disk.rest = existing.rest
        /\ disk.name = NameAfter(existing.name, WithoutUnsafe(existing.name.text))

\* C30: a successful run leaves every top-level key other than name, scripts,
\* devDependencies, lint-staged, engines and volta as it was; a non-empty string name
\* is replaced by itself trimmed and then without < > ' " &, or by 'my-project' if
\* that is empty; any other name is left as it was
C30_FrameOfRewrite ==
    Done =>
        /\ disk.rest = existing.rest
        /\ disk.name = NameAfter(existing.name, WithoutUnsafe(Trimmed(existing.name.text)))

C30_Witness ==
    /\ Done
    /\ existing.name = JsValue("string", "  my-app\n")
    /\ disk.name = JsValue("string", "my-app")
    /\ "description" \in DOMAIN disk.rest
    /\ disk.rest["description"] = " <b>Tom & Jerry's</b> "
    /\ disk.scripts # existing.scripts
    /\ "node" \in DOMAIN disk.engines

====
